---- MODULE Spec2Model ----
(***************************************************************************)
(* Model of the versioned snapshot store of cmmc-data-pipeline             *)
(* (src/pipeline/versioning.py, class VersionManager).                     *)
(*                                                                         *)
(* Strings are sequences of one-character strings, so that the id          *)
(* formatting f"v{n:03d}" and the parsing int(v.lstrip("v")) are computed  *)
(* and not assumed.  An optional value (Python None or a value) is a       *)
(* sequence of length 0 or 1: None is << >>, a value x is << x >>.         *)
(* The file system is modelled by the files the store reads and writes:    *)
(* manifest.json, the versions directory and its version directories,      *)
(* train.jsonl and its backups.  The pass-through metadata of VersionInfo  *)
(* (created_at, description, sources) is never read back by the store and  *)
(* is left out of the records.                                             *)
(***************************************************************************)
EXTENDS Integers, Sequences, FiniteSets, TLC

(* ------------------------------ bounds -------------------------------- *)

\* Largest number of create_snapshot calls in a behaviour of a store that
\* has no training directory.
MaxCreates == 3

\* Largest number of create_snapshot calls in a behaviour of a store that
\* has a training directory.
MaxCreatesMerging == 1

\* Largest number of successful merge_to_training calls in a behaviour.
MaxMerges == 2

(* ---------------------------- optional values -------------------------- *)

None == << >>

Some(x) == << x >>

IsNone(o) == Len(o) = 0

(* ------------------------- strings and version ids --------------------- *)

DigitChars == << "0", "1", "2", "3", "4", "5", "6", "7", "8", "9" >>

\* str(n) for a natural number n.
RECURSIVE IntToStr(_)
IntToStr(n) ==
    IF n < 10 THEN << DigitChars[n + 1] >>
    ELSE IntToStr(n \div 10) \o << DigitChars[(n % 10) + 1] >>

\* The format specification 03d: pad with zeros on the left to width 3.
RECURSIVE ZeroPad3(_)
ZeroPad3(s) == IF Len(s) >= 3 THEN s ELSE ZeroPad3(<< "0" >> \o s)

\* f"v{n:03d}"
FormatVersion(n) == << "v" >> \o ZeroPad3(IntToStr(n))

\* s.lstrip("v")
RECURSIVE LStripV(_)
LStripV(s) ==
    IF Len(s) > 0 /\ Head(s) = "v" THEN LStripV(Tail(s)) ELSE s

DigitVal(c) == CHOOSE d \in 0..9 : DigitChars[d + 1] = c

\* int(s) for a non-empty string of decimal digits.
RECURSIVE StrToInt(_)
StrToInt(s) ==
    IF Len(s) = 0 THEN 0
    ELSE 10 * StrToInt(SubSeq(s, 1, Len(s) - 1)) + DigitVal(s[Len(s)])

\* int(v.lstrip("v"))
VersionNumber(v) == StrToInt(LStripV(v))

\* The empty string.
EmptyStr == << >>

(* ------------------------------- records ------------------------------- *)

\* A chat record: its source and the number of its messages.
Record(source, nmsgs) == [source |-> source, nmsgs |-> nmsgs]

\* The batches a caller passes to create_snapshot: no record, one record,
\* and two different records.
Batches ==
    { << >>,
      << Record("test_0", 3) >>,
      << Record("test_1", 2), Record("test_0", 3) >> }

\* The batch a caller passes to the create_snapshot that follows n earlier
\* ones: any batch to the first, two records to the second, one record to
\* each later one.
BatchesAt(n) ==
    IF n = 0 THEN Batches
    ELSE IF n = 1 THEN { << Record("test_1", 2), Record("test_0", 3) >> }
    ELSE { << Record("test_0", 3) >> }

\* The version arguments a caller passes: v001, v002 and v003 (each of
\* them names no version before it is allocated and after it is deleted)
\* and the empty string.
VersionArgs == { FormatVersion(n) : n \in 1..3 } \cup { EmptyStr }

(* ------------------------------ JSON lines ----------------------------- *)

\* json.dumps(record, default=str) + "\n"
JsonLine(r) == [blank |-> FALSE, rec |-> r]

\* A line that is empty after strip().
BlankLine == [blank |-> TRUE]

\* for record in records: f.write(json.dumps(record, default=str) + "\n")
WriteJsonl(records) == [i \in 1..Len(records) |-> JsonLine(records[i])]

\* for line in f: line = line.strip(); if line: records.append(json.loads(line))
RECURSIVE ReadJsonl(_)
ReadJsonl(lines) ==
    IF Len(lines) = 0 THEN << >>
    ELSE IF Head(lines).blank THEN ReadJsonl(Tail(lines))
    ELSE << Head(lines).rec >> \o ReadJsonl(Tail(lines))

\* The contents train.jsonl can have when the store is opened: no file, an
\* empty file, and files of records with and without blank lines.
TrainFileInits ==
    { None,
      Some(<< >>),
      Some(<< JsonLine(Record("test_1", 2)), BlankLine,
              JsonLine(Record("test_0", 3)) >>) }

(* -------------------------------- state -------------------------------- *)

VARIABLES
    manifest,           \* self.manifest: [versions, current]
    diskManifest,       \* manifest.json: None, or Some(the saved manifest)
    versionsDirExists,  \* whether base_dir/versions exists
    versionFiles,       \* version directory name -> [records, info] files
    trainingConfigured, \* whether self.training_data_dir is set
    trainFile,          \* train.jsonl: None, or Some(its lines)
    backups,            \* version id -> lines of train.jsonl.bak.<id>
    result,             \* the last call: operation, arguments, outcome
    nCreates,           \* number of create_snapshot calls so far
    nMerges,            \* number of successful merge_to_training calls
    lastMoved,          \* id of the last successful create or rollback
    deletedHighest,     \* a delete_version removed the highest listed id
    idx,                \* the DedupIndex object: its fields
    indexFile,          \* the file of save_index: None, or Some(its list)
    dres,               \* the last call on the index: arguments, outcome
    dhist,              \* history of the index: what was admitted, reported
    qf,                 \* filter_record: its arguments, its result if called
    vl,                 \* validate_all: its arguments, its result if called
    run,                \* run_pipeline: its arguments, position and locals
    writers             \* store instances sharing base_dir: id -> its fields

\* The state of the version store and of its training file.
versioningVars == << manifest, diskManifest, versionsDirExists, versionFiles,
                     trainingConfigured, trainFile, backups, result,
                     nCreates, nMerges, lastMoved, deletedHighest >>

\* The state of the deduplication index.
dedupVars == << idx, indexFile, dres, dhist >>

\* The state of the processors and of the store instances that share a
\* directory, which no operation of the store above touches.
processingVars == << dedupVars, qf, vl, writers >>

\* The state that no operation of the deduplication index touches.
outsideDedup == << versioningVars, qf, vl, run, writers >>

\* The state that filter_record does not touch.
outsideFilter == << versioningVars, dedupVars, vl, run, writers >>

\* The state that validate_all does not touch.
outsideValidator == << versioningVars, dedupVars, qf, run, writers >>

vars == << versioningVars, processingVars, run >>

storeVars == << manifest, diskManifest, versionsDirExists, versionFiles >>

trainVars == << trainFile, backups >>

histVars == << nCreates, nMerges, lastMoved, deletedHighest >>

EmptyFiles == [x \in {} |-> None]

\* {"versions": [], "current": None}
EmptyManifest == [versions |-> << >>, current |-> None]

NoDiff ==
    [records_a |-> 0, records_b |-> 0, delta |-> 0,
     new_sources |-> {}, removed_sources |-> {}]

\* The outcome of a call: the operation, its version arguments, "ok" or the
\* message of the ValueError raised, and the value returned.
Outcome(op, status, target, version, records) ==
    [op |-> op, status |-> status, target |-> target, version |-> version,
     records |-> records, listing |-> << >>, other |-> None, diff |-> NoDiff]

NoResult == Outcome("init", "ok", None, None, << >>)

\* A table with no key: an empty dict, an empty MinHashLSH.
EmptyTable == [k \in {} |-> {}]

\* DedupIndex(): no fingerprint, no MinHash, counter 0.
EmptyIndex ==
    [exact_hashes |-> {}, lsh |-> EmptyTable, minhashes |-> EmptyTable,
     counter |-> 0]

\* The outcome of a call on the index: the operation, its text, batch or
\* corpus argument, "ok" or the name of the exception raised, the verdict of
\* is_duplicate, the number returned by load_existing, and the records kept
\* and the statistics of deduplicate_batch.
DedupOutcome(op, status, arg) ==
    [op |-> op, status |-> status, arg |-> arg, loaded |-> 0,
     verdict |-> << FALSE, "" >>, kept |-> << >>,
     stats |-> [total_input |-> 0, exact_dupes |-> 0, near_dupes |-> 0, unique |-> 0]]

\* History of a new index object: nothing admitted, nothing reported.
\*   admitted      texts passed to _add_to_index on this object
\*   sinceLoad     those passed since its last load_index of an existing file
\*   nearSeen      texts this object reported as near-duplicates and was
\*                 never passed
\*   loaded        this object has run load_index on an existing file
\*   restored      this object is a new index that ran load_index once, on
\*                 an existing file, and has admitted nothing
\*   nAdds, nNew   numbers of _add_to_index calls and of DedupIndex() calls
NewHistory(h) ==
    [h EXCEPT !.admitted = {}, !.sinceLoad = {}, !.nearSeen = {},
              !.loaded = FALSE, !.restored = FALSE]

\* History at the first DedupIndex(): no file was saved yet.
\*   saved         what the saving object had when it wrote the file: the
\*                 texts it had admitted, those of them it had admitted
\*                 since its last load_index, the texts it had reported as
\*                 near-duplicates, and whether it had run load_index
NoHistory ==
    [admitted |-> {}, sinceLoad |-> {}, nearSeen |-> {}, loaded |-> FALSE,
     restored |-> FALSE, nAdds |-> 0, nNew |-> 1,
     saved |-> [admitted |-> {}, sinceLoad |-> {}, nearSeen |-> {},
                loaded |-> FALSE]]

\* The index before any call.
DedupIdle ==
    /\ idx = EmptyIndex
    /\ indexFile = None
    /\ dres = DedupOutcome("init", "ok", << >>)
    /\ dhist = NoHistory

\* No call of filter_record is under way.
NoFilterCall ==
    [text |-> EmptyStr, config |-> << >>, min_length |-> None, out |-> None,
     fromAccepted |-> FALSE]

\* No call of validate_all is under way.
NoValidation ==
    [records |-> << >>, config |-> << >>, existing |-> None,
     status |-> "init", out |-> None]

\* No store instance other than the one of `manifest`.
NoWriters == << >>

\* The processors before any call, and no further store instance.
ProcessingIdle ==
    DedupIdle /\ qf = NoFilterCall /\ vl = NoValidation /\ writers = NoWriters

\* run_pipeline is not running.
NoRun == [pc |-> "idle"]

(* ------------------------------- helpers ------------------------------- *)

\* _load_manifest
LoadManifest(disk) == IF IsNone(disk) THEN EmptyManifest ELSE disk[1]

\* [v["version"] for v in self.manifest["versions"]]
ExistingIds(m) == { m.versions[i].version : i \in 1..Len(m.versions) }

SetMax(S) == CHOOSE x \in S : \A y \in S : y <= x

\* _save_manifest that writes nothing.
SaveManifest_Skipped(m) == diskManifest

\* _save_manifest: json.dump(self.manifest) over manifest.json
SaveManifest(m) == Some(m)

\* _next_version without the increment.
NextVersion_NoIncrement(m) ==
    IF ExistingIds(m) = {} THEN FormatVersion(1)
    ELSE FormatVersion(SetMax({ VersionNumber(v) : v \in ExistingIds(m) }))

\* _next_version
NextVersion(m) ==
    IF ExistingIds(m) = {} THEN FormatVersion(1)
    ELSE FormatVersion(SetMax({ VersionNumber(v) : v \in ExistingIds(m) }) + 1)

\* A rollback that skips the existence check.
DirExists_Always(name) == TRUE

\* (self.versions_dir / name).exists(): joining the empty string to a path
\* gives the path itself, so the empty name denotes the versions directory.
DirExists(name) ==
    IF name = EmptyStr THEN versionsDirExists
    ELSE versionsDirExists /\ name \in DOMAIN versionFiles

\* _load_version_records
LoadVersionRecords(name) ==
    IF name # EmptyStr /\ name \in DOMAIN versionFiles
    THEN ReadJsonl(versionFiles[name].records)
    ELSE << >>

(* --------------------------------- Init -------------------------------- *)

\* VersionManager(base_dir, training_data_dir) on a fresh base_dir.
Init ==
    /\ manifest = EmptyManifest
    /\ diskManifest = None
    /\ versionsDirExists = TRUE
    /\ versionFiles = EmptyFiles
    /\ trainingConfigured \in BOOLEAN
    /\ trainFile \in (IF trainingConfigured THEN TrainFileInits ELSE { None })
    /\ backups = EmptyFiles
    /\ result = NoResult
    /\ nCreates = 0
    /\ nMerges = 0
    /\ lastMoved = None
    /\ deletedHighest = FALSE
    /\ ProcessingIdle
    /\ run = NoRun

(* ------------------------------ operations ----------------------------- *)

\* VersionManager(base_dir, training_data_dir) on the same directories: a
\* restart of the single writer.
Reopen ==
    /\ versionsDirExists' = TRUE
    /\ manifest' = LoadManifest(diskManifest)
    /\ result' = Outcome("open", "ok", None, None, << >>)
    /\ UNCHANGED << diskManifest, versionFiles, trainingConfigured, processingVars >>
    /\ UNCHANGED trainVars
    /\ UNCHANGED histVars

\* The bound on the create_snapshot calls of this store.
CreateLimit == IF trainingConfigured THEN MaxCreatesMerging ELSE MaxCreates

\* VersionInfo(...), were parent_version left at its default.
VersionInfo_NoParent(version, records, current) ==
    [version |-> version, record_count |-> Len(records), parent_version |-> None]

\* VersionInfo(version, record_count = len(records), parent_version =
\* self.manifest.get("current", "")); the time, the description and the
\* sources are left out.
VersionInfo(version, records, current) ==
    [version |-> version, record_count |-> Len(records), parent_version |-> current]

\* create_snapshot(records)
create_snapshot(records) ==
    /\ nCreates < CreateLimit
    /\ LET version == NextVersion(manifest)
           info == VersionInfo(version, records, manifest.current)
           files == [records |-> WriteJsonl(records), info |-> info]
       IN  /\ versionsDirExists' = TRUE
           /\ versionFiles' = (version :> files) @@ versionFiles
           /\ manifest' = [versions |-> Append(manifest.versions, info),
                           current |-> Some(version)]
           /\ diskManifest' = SaveManifest(manifest')
           /\ result' = Outcome("create_snapshot", "ok", None, Some(version), << >>)
           /\ lastMoved' = Some(version)
    /\ nCreates' = nCreates + 1
    /\ UNCHANGED << trainingConfigured, processingVars, nMerges, deletedHighest >>
    /\ UNCHANGED trainVars

\* A rollback that leaves the pointer where it is.
RolledBack_NoMove(m, target_version) == m

\* A rollback that drops the versions created after the target.
RolledBack_Truncating(m, target_version) ==
    [versions |-> SelectSeq(m.versions,
                     LAMBDA v : VersionNumber(v.version) <= VersionNumber(target_version)),
     current |-> Some(target_version)]

\* self.manifest["current"] = target_version
RolledBack(m, target_version) == [m EXCEPT !.current = Some(target_version)]

\* rollback(target_version)
rollback(target_version) ==
    IF ~DirExists(target_version)
    THEN /\ result' = Outcome("rollback", "not found", Some(target_version), None, << >>)
         /\ UNCHANGED storeVars
         /\ UNCHANGED << trainingConfigured, processingVars, trainFile, backups >>
         /\ UNCHANGED histVars
    ELSE /\ manifest' = RolledBack(manifest, target_version)
         /\ diskManifest' = SaveManifest(manifest')
         /\ result' = Outcome("rollback", "ok", Some(target_version), None,
                              LoadVersionRecords(target_version))
         /\ lastMoved' = Some(target_version)
         /\ UNCHANGED << versionsDirExists, versionFiles, trainingConfigured, processingVars >>
         /\ UNCHANGED trainVars
         /\ UNCHANGED << nCreates, nMerges, deletedHighest >>

\* list_versions()
list_versions ==
    /\ result' = [Outcome("list_versions", "ok", None, None, << >>)
                    EXCEPT !.listing = manifest.versions]
    /\ UNCHANGED storeVars
    /\ UNCHANGED << trainingConfigured, processingVars, trainFile, backups >>
    /\ UNCHANGED histVars

\* The sources of all the records, whatever the number of their messages.
SourcesOf_AllRecords(records) ==
    { records[i].source : i \in 1..Len(records) }

\* The sources of the records that have at least 3 messages.
SourcesOf(records) ==
    { records[i].source : i \in { j \in 1..Len(records) : records[j].nmsgs >= 3 } }

\* diff_versions(version_a, version_b)
diff_versions(version_a, version_b) ==
    /\ LET records_a == LoadVersionRecords(version_a)
           records_b == LoadVersionRecords(version_b)
           sources_a == SourcesOf(records_a)
           sources_b == SourcesOf(records_b)
       IN  result' = [Outcome("diff_versions", "ok", Some(version_a), None, << >>)
                        EXCEPT !.other = Some(version_b),
                               !.diff = [records_a |-> Len(records_a),
                                         records_b |-> Len(records_b),
                                         delta |-> Len(records_b) - Len(records_a),
                                         new_sources |-> sources_b \ sources_a,
                                         removed_sources |-> sources_a \ sources_b]]
    /\ UNCHANGED storeVars
    /\ UNCHANGED << trainingConfigured, processingVars, trainFile, backups >>
    /\ UNCHANGED histVars

\* A delete that also drops the entries older than the deleted one.
WithoutVersion_DropsOlder(versions, version) ==
    SelectSeq(versions,
              LAMBDA v : VersionNumber(v.version) > VersionNumber(version))

\* The manifest entries kept by delete_version.
RECURSIVE WithoutVersion(_, _)
WithoutVersion(versions, version) ==
    IF Len(versions) = 0 THEN << >>
    ELSE IF Head(versions).version # version
    THEN << Head(versions) >> \o WithoutVersion(Tail(versions), version)
    ELSE WithoutVersion(Tail(versions), version)

\* shutil.rmtree(self.versions_dir / version), when that directory exists.
FilesAfterRmtree(version) ==
    IF ~DirExists(version) THEN versionFiles
    ELSE IF version = EmptyStr THEN EmptyFiles
    ELSE [n \in (DOMAIN versionFiles) \ { version } |-> versionFiles[n]]

\* A delete without its guard.
IsCurrent_Never(version) == FALSE

\* version == self.manifest.get("current")
IsCurrent(version) == Some(version) = manifest.current

\* delete_version(version)
delete_version(version) ==
    IF IsCurrent(version)
    THEN /\ result' = Outcome("delete_version", "cannot delete current",
                              Some(version), None, << >>)
         /\ UNCHANGED storeVars
         /\ UNCHANGED << trainingConfigured, processingVars, trainFile, backups >>
         /\ UNCHANGED histVars
    ELSE /\ versionFiles' = FilesAfterRmtree(version)
         /\ versionsDirExists' =
                (versionsDirExists /\ ~(version = EmptyStr /\ DirExists(version)))
         /\ manifest' = [manifest EXCEPT
                            !.versions = WithoutVersion(manifest.versions, version)]
         /\ diskManifest' = SaveManifest(manifest')
         /\ result' = Outcome("delete_version", "ok", Some(version), None, << >>)
         /\ deletedHighest' =
                (\/ deletedHighest
                 \/ /\ version \in ExistingIds(manifest)
                    /\ \A v \in ExistingIds(manifest) :
                           VersionNumber(v) <= VersionNumber(version))
         /\ UNCHANGED << trainingConfigured, processingVars, nCreates, nMerges, lastMoved >>
         /\ UNCHANGED trainVars

\* version or self.manifest.get("current"): None and "" are both falsy.
ResolveVersion(version) ==
    IF ~IsNone(version) /\ version[1] # EmptyStr THEN version ELSE manifest.current

\* The guards of merge_to_training without the check for an empty version.
MergeStatus_NoEmptyCheck(version) ==
    LET resolved == ResolveVersion(version)
    IN  IF ~trainingConfigured THEN "no training_data_dir"
        ELSE IF IsNone(resolved) \/ resolved[1] = EmptyStr THEN "no version"
        ELSE "ok"

\* The guards of merge_to_training: "ok", or the ValueError raised.
MergeStatus(version) ==
    LET resolved == ResolveVersion(version)
    IN  IF ~trainingConfigured THEN "no training_data_dir"
        ELSE IF IsNone(resolved) \/ resolved[1] = EmptyStr THEN "no version"
        ELSE IF Len(LoadVersionRecords(resolved[1])) = 0 THEN "no records"
        ELSE "ok"

\* A merge that puts the new records first.
MergedRecords_NewFirst(existing, records) == records \o existing

\* merged = existing + records
MergedRecords(existing, records) == existing \o records

\* The backups, were an existing backup of the version left as it is.
BackedUp_KeepsFirst(files, version, file) ==
    IF IsNone(file) \/ version \in DOMAIN files THEN files
    ELSE (version :> file[1]) @@ files

\* if train_path.exists(): shutil.copy2(train_path, train.jsonl.bak.<version>)
BackedUp(files, version, file) ==
    IF IsNone(file) THEN files ELSE (version :> file[1]) @@ files

\* merge_to_training(version), version being None or an id
merge_to_training(version) ==
    LET resolved == ResolveVersion(version)
        records == LoadVersionRecords(resolved[1])
        existing == IF IsNone(trainFile) THEN << >> ELSE ReadJsonl(trainFile[1])
        status == MergeStatus(version)
    IN  IF status # "ok"
        THEN /\ result' = Outcome("merge_to_training", status, version, None, << >>)
             /\ UNCHANGED storeVars
             /\ UNCHANGED << trainingConfigured, processingVars, trainFile, backups >>
             /\ UNCHANGED histVars
        ELSE /\ nMerges < MaxMerges
             /\ backups' = BackedUp(backups, resolved[1], trainFile)
             /\ trainFile' = Some(WriteJsonl(MergedRecords(existing, records)))
             /\ result' = Outcome("merge_to_training", "ok", version, resolved, << >>)
             /\ nMerges' = nMerges + 1
             /\ UNCHANGED storeVars
             /\ UNCHANGED << trainingConfigured, processingVars, nCreates, lastMoved, deletedHighest >>

(* ---------------------------- specification ---------------------------- *)

\* The operations of the store, called by its user while run_pipeline is
\* not running.
Next ==
    \/ Reopen /\ UNCHANGED run
    \/ \E records \in BatchesAt(nCreates) :
           create_snapshot(records) /\ UNCHANGED run
    \/ \E v \in VersionArgs : rollback(v) /\ UNCHANGED run
    \/ list_versions /\ UNCHANGED run
    \/ \E a \in VersionArgs, b \in VersionArgs :
           diff_versions(a, b) /\ UNCHANGED run
    \/ \E v \in VersionArgs : delete_version(v) /\ UNCHANGED run
    \/ \E v \in { None } \cup { Some(x) : x \in VersionArgs } :
           merge_to_training(v) /\ UNCHANGED run

Spec == Init /\ [][Next]_vars

(* -------------------------------- claims ------------------------------- *)

\* The directory a version name denotes exists on disk, read from the state.
HasDirectory(name) ==
    \/ name = EmptyStr /\ versionsDirExists
    \/ name # EmptyStr /\ name \in DOMAIN versionFiles

\* The records of the lines of a file, blank lines left out.
RecsOf(lines) ==
    LET kept == SelectSeq(lines, LAMBDA l : ~l.blank)
    IN  [i \in 1..Len(kept) |-> kept[i].rec]

\* The records stored for a version name: none when it has no record file.
StoredRecords(name) ==
    IF name # EmptyStr /\ name \in DOMAIN versionFiles
    THEN RecsOf(versionFiles[name].records)
    ELSE << >>

\* C1: in every reachable state, `current` is null or the id of an entry of
\* the manifest's version list.
C1_CurrentIsListed ==
    IsNone(manifest.current) \/ manifest.current[1] \in ExistingIds(manifest)

\* C2 as stated: the N-th create_snapshot returns "v" followed by N padded to
\* three digits, whatever rollback and delete_version calls came before it.
C2_NthSnapshotIsVN ==
    result.op = "create_snapshot" => result.version = Some(FormatVersion(nCreates))

\* C2 as amended: the N-th create_snapshot returns "v" followed by N padded
\* to three digits, whatever rollback calls and whatever delete_version
\* calls of other entries came before it, as long as no delete_version has
\* removed the highest-numbered entry of the version list; once one has,
\* the N-th create_snapshot returns an id whose number is below N.
C2_NthSnapshotIsVNUnlessHighestDeleted ==
    result.op = "create_snapshot" =>
        /\ ~IsNone(result.version)
        /\ ~deletedHighest => result.version = Some(FormatVersion(nCreates))
        /\ deletedHighest => VersionNumber(result.version[1]) < nCreates

\* The third snapshot of a store whose first version was deleted while the
\* second was current: the list holds v002 and v003, each the child of the
\* version created before it.
C2_Witness ==
    /\ result.op = "create_snapshot"
    /\ nCreates = 3
    /\ ~deletedHighest
    /\ result.version = Some(FormatVersion(3))
    /\ Len(manifest.versions) = 2
    /\ manifest.versions[1].version = FormatVersion(2)
    /\ manifest.versions[1].parent_version = Some(FormatVersion(1))
    /\ manifest.versions[2].version = FormatVersion(3)
    /\ manifest.versions[2].parent_version = Some(FormatVersion(2))

\* The third create_snapshot of a store in which rollback was only given
\* ids of the list returned v002: the store rolled back to v001 and
\* deleted v002, and v002 is the child of v001 again.
ReusedAfterRollbackAndDelete ==
    /\ result.op = "create_snapshot"
    /\ nCreates = 3
    /\ deletedHighest
    /\ result.version = Some(FormatVersion(2))
    /\ Len(manifest.versions) = 2
    /\ manifest.versions[1].parent_version = None
    /\ manifest.versions[2].parent_version = Some(FormatVersion(1))

\* C3: `current` is the id returned by the last successful create_snapshot
\* or the target of the last successful rollback, whichever came later (null
\* before both); no other call and no failed call changes it.
C3_CurrentIsLastCreatedOrRolledBack == manifest.current = lastMoved

\* A version was deleted after a rollback to an older one.
C3_Witness ==
    /\ result.op = "delete_version"
    /\ result.status = "ok"
    /\ nCreates = 2
    /\ Len(manifest.versions) = 1
    /\ manifest.current = Some(FormatVersion(1))

\* C4: a successful rollback(target) changes only `current`: the version
\* list and every version's files are as before, the training files are
\* untouched, and the call returns the records stored for target.
C4_RollbackChangesOnlyCurrent ==
    [][(result'.op = "rollback" /\ result'.status = "ok")
          => /\ manifest'.current = result'.target
             /\ manifest'.versions = manifest.versions
             /\ versionFiles' = versionFiles
             /\ versionsDirExists' = versionsDirExists
             /\ trainFile' = trainFile
             /\ backups' = backups
             /\ result'.records = StoredRecords(result'.target[1])]_vars

\* A rollback to the first of two versions returned its records, and the
\* second version is still listed and on disk.
C4_Witness ==
    /\ result.op = "rollback"
    /\ result.status = "ok"
    /\ result.target = Some(FormatVersion(1))
    /\ Len(result.records) > 0
    /\ Len(manifest.versions) = 2
    /\ manifest.versions[2].version = FormatVersion(2)
    /\ FormatVersion(2) \in DOMAIN versionFiles

\* C5: rollback(target) for a target that has no version directory fails
\* with the not-found error and leaves `current`, the version list, the
\* version files and the manifest file unchanged.
C5_RollbackToMissingVersionFails ==
    [][(result'.op = "rollback" /\ ~HasDirectory(result'.target[1]))
          => /\ result'.status = "not found"
             /\ manifest' = manifest
             /\ diskManifest' = diskManifest
             /\ versionFiles' = versionFiles
             /\ versionsDirExists' = versionsDirExists]_vars

\* A rollback to a deleted version failed on a store that has a version.
C5_Witness ==
    /\ result.op = "rollback"
    /\ result.status = "not found"
    /\ result.target[1] # EmptyStr
    /\ result.target[1] \notin ExistingIds(manifest)
    /\ nCreates >= VersionNumber(result.target[1])
    /\ Len(manifest.versions) > 0
    /\ ~IsNone(diskManifest)

\* C6: delete_version(v) with v equal to `current` raises the error of the
\* delete guard and removes nothing: the version files, the manifest and the
\* manifest file are unchanged.
C6_DeleteCurrentIsRejected ==
    [][(result'.op = "delete_version" /\ result'.target = manifest.current)
          => /\ result'.status = "cannot delete current"
             /\ manifest' = manifest
             /\ diskManifest' = diskManifest
             /\ versionFiles' = versionFiles
             /\ versionsDirExists' = versionsDirExists]_vars

\* The delete of the current version was rejected, the version being listed
\* and on disk.
C6_Witness ==
    /\ result.op = "delete_version"
    /\ result.status = "cannot delete current"
    /\ result.target = manifest.current
    /\ result.target[1] \in ExistingIds(manifest)
    /\ result.target[1] \in DOMAIN versionFiles

\* The position of the entry of a version in a version list.
IndexOfVersion(versions, version) ==
    CHOOSE i \in 1..Len(versions) : versions[i].version = version

\* C7: delete_version(v) for a listed v other than `current` removes exactly
\* the entry of v from the version list and the files of v, and leaves
\* `current`, the other entries (and their order) and the other versions'
\* files unchanged.
C7_DeleteRemovesExactlyOneVersion ==
    [][(/\ result'.op = "delete_version"
        /\ result'.target # manifest.current
        /\ result'.target[1] \in ExistingIds(manifest))
          => LET v == result'.target[1]
                 k == IndexOfVersion(manifest.versions, v)
             IN  /\ result'.status = "ok"
                 /\ manifest'.current = manifest.current
                 /\ manifest'.versions =
                        SubSeq(manifest.versions, 1, k - 1)
                            \o SubSeq(manifest.versions, k + 1, Len(manifest.versions))
                 /\ DOMAIN versionFiles' = (DOMAIN versionFiles) \ { v }
                 /\ \A n \in DOMAIN versionFiles' : versionFiles'[n] = versionFiles[n]]_vars

\* The older of two versions was deleted; the newer one is current, listed
\* and on disk.
C7_Witness ==
    /\ result.op = "delete_version"
    /\ result.status = "ok"
    /\ result.target = Some(FormatVersion(1))
    /\ manifest.current = Some(FormatVersion(2))
    /\ ExistingIds(manifest) = { FormatVersion(2) }
    /\ DOMAIN versionFiles = { FormatVersion(2) }

\* The records train.jsonl holds: none when the file does not exist.
TrainRecords(file) == IF IsNone(file) THEN << >> ELSE RecsOf(file[1])

\* A successful merge left E+N records in the destination, the E existing
\* ones first in their order, then the N records of the merged version.
MergeAppended ==
    LET v == result'.version[1]
    IN  /\ ~IsNone(trainFile')
        /\ \A i \in 1..Len(trainFile'[1]) : ~trainFile'[1][i].blank
        /\ Len(trainFile'[1]) = Len(TrainRecords(trainFile)) + Len(StoredRecords(v))
        /\ RecsOf(trainFile'[1]) = TrainRecords(trainFile) \o StoredRecords(v)

\* A successful merge left the backup named with the merged version id
\* holding the destination's content from before the merge, and left every
\* other backup as it was.
MergeBackedUp ==
    LET v == result'.version[1]
    IN  /\ v \in DOMAIN backups'
        /\ ~IsNone(trainFile)
        /\ backups'[v] = trainFile[1]
        /\ (DOMAIN backups') \ { v } = (DOMAIN backups) \ { v }
        /\ \A n \in (DOMAIN backups) \ { v } : backups'[n] = backups[n]

\* C8 as stated: a successful merge appends the version's N records after
\* the E existing ones and creates exactly one backup file, named with the
\* merged version id, holding the destination's previous content.
C8_MergeAppendsAndBacksUp ==
    [][(result'.op = "merge_to_training" /\ result'.status = "ok")
          => (MergeAppended /\ MergeBackedUp)]_vars

\* C8 as amended: a successful merge appends the version's N records after
\* the E existing ones; when the destination file existed before the merge
\* it writes exactly one backup file, named with the merged version id,
\* holding the destination's previous content, and when the destination file
\* did not exist it writes no backup file.
C8_MergeAppendsAndBacksUpExistingFile ==
    [][(result'.op = "merge_to_training" /\ result'.status = "ok")
          => /\ MergeAppended
             /\ IF IsNone(trainFile) THEN backups' = backups ELSE MergeBackedUp]_vars

\* A version of two records was merged onto a destination file of two
\* records and a blank line; the backup holds the three old lines.
C8_Witness ==
    /\ result.op = "merge_to_training"
    /\ result.status = "ok"
    /\ ~IsNone(trainFile)
    /\ RecsOf(trainFile[1]) =
           << Record("test_1", 2), Record("test_0", 3),
              Record("test_1", 2), Record("test_0", 3) >>
    /\ DOMAIN backups = { result.version[1] }
    /\ Len(backups[result.version[1]]) = 3

\* The messages of the errors merge_to_training raises.
MergeErrors == { "no training_data_dir", "no version", "no records" }

\* The version a merge works on: the argument unless it is None or empty,
\* otherwise `current`.
MergedVersionFor(arg) ==
    IF arg # None /\ arg # Some(EmptyStr) THEN arg ELSE manifest.current

\* C9: merge_to_training fails, writing no backup and leaving the
\* destination file as it was, when no training directory is configured,
\* when no version is passed and `current` is null, and when the resolved
\* version has zero records.
C9_MergeFailsWithoutSideEffects ==
    [][(/\ result'.op = "merge_to_training"
        /\ \/ ~trainingConfigured
           \/ result'.target = None /\ manifest.current = None
           \/ LET r == MergedVersionFor(result'.target)
              IN  r # None /\ Len(StoredRecords(r[1])) = 0)
          => /\ result'.status \in MergeErrors
             /\ trainFile' = trainFile
             /\ backups' = backups]_vars

\* A merge of a listed version that has no records failed on a store whose
\* destination file exists.
C9_Witness ==
    /\ result.op = "merge_to_training"
    /\ result.status = "no records"
    /\ trainingConfigured
    /\ ~IsNone(trainFile)
    /\ ~IsNone(manifest.current)
    /\ manifest.current[1] \in DOMAIN versionFiles
    /\ Len(versionFiles[manifest.current[1]].records) = 0

\* The calls that change the manifest.
MutatingOps == { "create_snapshot", "rollback", "delete_version" }

\* C10: whenever a create_snapshot, rollback or delete_version call has
\* returned, normally or with an error, a store opened on the directory
\* loads a manifest equal to the one in memory.
C10_ManifestFileMatchesMemory ==
    result.op \in MutatingOps => LoadManifest(diskManifest) = manifest

\* A rollback moved `current` off the newest version and was saved.
C10_Witness ==
    /\ result.op = "rollback"
    /\ result.status = "ok"
    /\ Len(manifest.versions) = 2
    /\ manifest.current = Some(FormatVersion(1))
    /\ diskManifest = Some(manifest)

\* S(v): the `source` values of the stored records of v that have at least
\* 3 messages.
QualifiedSources(name) ==
    LET recs == StoredRecords(name)
    IN  { r.source : r \in { recs[i] : i \in 1..Len(recs) } \cap
                            { q \in { recs[j] : j \in 1..Len(recs) } : q.nmsgs >= 3 } }

\* C11: diff(a, b) reports the numbers of records stored for a and for b,
\* delta = records_b - records_a, new_sources = S(b) \ S(a) and
\* removed_sources = S(a) \ S(b), and changes no state of the store.
C11_DiffReportsCountsAndSources ==
    [][(result'.op = "diff_versions")
          => LET a == result'.target[1]
                 b == result'.other[1]
                 d == result'.diff
             IN  /\ d.records_a = Len(StoredRecords(a))
                 /\ d.records_b = Len(StoredRecords(b))
                 /\ d.delta = d.records_b - d.records_a
                 /\ d.new_sources = QualifiedSources(b) \ QualifiedSources(a)
                 /\ d.removed_sources = QualifiedSources(a) \ QualifiedSources(b)
                 /\ manifest' = manifest
                 /\ diskManifest' = diskManifest
                 /\ versionFiles' = versionFiles
                 /\ versionsDirExists' = versionsDirExists
                 /\ trainFile' = trainFile
                 /\ backups' = backups]_vars

\* A diff from an empty version to a version of two records, one of which
\* has fewer than 3 messages: only the other one's source is new.
C11_Witness ==
    /\ result.op = "diff_versions"
    /\ result.diff.records_a = 0
    /\ result.diff.records_b = 2
    /\ result.diff.delta = 2
    /\ result.diff.new_sources = { "test_0" }
    /\ result.diff.removed_sources = {}

(* ======================= the deduplication index ====================== *)
(* src/processors/dedup.py, class DedupIndex.  A fingerprint is the xxh64  *)
(* digest of the text; the model keeps the text under the digest's name,   *)
(* that is a digest without collisions.  A MinHash is kept as the set of   *)
(* character shingles it is computed from, and the LSH index returns the   *)
(* keys whose shingle sets are similar enough to the queried one; the      *)
(* texts of the model have shingle sets that are equal or disjoint, the    *)
(* two cases in which the banding of MinHashLSH has one possible answer.   *)

\* Largest number of _add_to_index calls in a behaviour.
MaxAdds == 2

\* Largest number of DedupIndex objects constructed in a behaviour.
MaxIndexes == 2

\* DedupIndex(shingle_size=5)
ShingleSize == 5

\* DedupIndex(lsh_threshold=0.8), in percent.
LshThresholdPct == 80

\* The character c, n times.
Rep(c, n) == [i \in 1..n |-> c]

\* The texts given to the index: two texts with the same shingles, and a
\* text that shares no shingle with them.
Texts == { Rep("a", 6), Rep("a", 7), Rep("b", 6) }

\* xxhash.xxh64(text.encode()).hexdigest()
Fingerprint(text) == [xxh64 |-> text]

\* f"rec_{n}" and f"existing_{n}"
RecKey(n) == << "r", "e", "c", "_" >> \o IntToStr(n)

ExistingKey(n) ==
    << "e", "x", "i", "s", "t", "i", "n", "g", "_" >> \o IntToStr(n)

\* _make_minhash: the shingles text[i:i+shingle_size] for i in
\* range(len(text) - shingle_size + 1); the range is empty for a text
\* shorter than shingle_size, whose MinHash is then never updated.
MakeMinhash(text) ==
    { SubSeq(text, i + 1, i + ShingleSize) :
        i \in 0..(Len(text) - ShingleSize) }

\* Two MinHashes fall in one bucket of the LSH index.
Collides(m1, m2) ==
    100 * Cardinality(m1 \cap m2) >= LshThresholdPct * Cardinality(m1 \cup m2)

\* self.lsh.query(mh)
Query(lsh, mh) == { k \in DOMAIN lsh : Collides(lsh[k], mh) }

\* The table t with key k set to v.
Put(t, k, v) == [x \in DOMAIN t \cup { k } |-> IF x = k THEN v ELSE t[x]]

\* _add_to_index(text, key): the fingerprint joins the exact set; the
\* MinHash is inserted under the key, unless the key is already in the LSH
\* index (a ValueError, which is caught and ignored).
AddToIndex(index, text, key) ==
    LET mh == MakeMinhash(text)
        k  == IF IsNone(key) THEN RecKey(index.counter) ELSE key[1]
        fresh == k \notin DOMAIN index.lsh
    IN  [exact_hashes |-> index.exact_hashes \cup { Fingerprint(text) },
         counter |-> IF IsNone(key) THEN index.counter + 1 ELSE index.counter,
         lsh |-> IF fresh THEN Put(index.lsh, k, mh) ELSE index.lsh,
         minhashes |-> IF fresh THEN Put(index.minhashes, k, << mh, Len(text) >>)
                       ELSE index.minhashes]

\* is_duplicate with the near-duplicate query made first.
IsDuplicate_NearFirst(index, text) ==
    IF Query(index.lsh, MakeMinhash(text)) # {} THEN << TRUE, "near" >>
    ELSE IF Fingerprint(text) \in index.exact_hashes THEN << TRUE, "exact" >>
    ELSE << FALSE, "" >>

\* is_duplicate(text): (is_dup, reason)
IsDuplicate(index, text) ==
    IF Fingerprint(text) \in index.exact_hashes THEN << TRUE, "exact" >>
    ELSE IF Query(index.lsh, MakeMinhash(text)) # {} THEN << TRUE, "near" >>
    ELSE << FALSE, "" >>

\* The history after the texts were passed to _add_to_index in n calls.
Noted(h, texts, n) ==
    [h EXCEPT !.admitted = @ \cup texts, !.sinceLoad = @ \cup texts,
              !.nearSeen = @ \ texts,
              !.restored = (@ /\ n = 0), !.nAdds = @ + n]

\* DedupIndex(): a new index object replaces the one in use.
NewIndex ==
    /\ dhist.nNew < MaxIndexes
    /\ idx' = EmptyIndex
    /\ dres' = DedupOutcome("DedupIndex", "ok", << >>)
    /\ dhist' = [NewHistory(dhist) EXCEPT !.nNew = @ + 1]
    /\ UNCHANGED indexFile
    /\ UNCHANGED outsideDedup

\* _add_to_index(text)
add_to_index(text) ==
    /\ dhist.nAdds < MaxAdds
    /\ idx' = AddToIndex(idx, text, None)
    /\ dres' = DedupOutcome("_add_to_index", "ok", text)
    /\ dhist' = Noted(dhist, { text }, 1)
    /\ UNCHANGED indexFile
    /\ UNCHANGED outsideDedup

\* is_duplicate(text), which also admits the text it finds unique.
is_duplicate_Admitting(text) ==
    LET v == IsDuplicate(idx, text)
    IN  /\ dres' = [DedupOutcome("is_duplicate", "ok", text) EXCEPT !.verdict = v]
        /\ dhist' = IF v[2] = "near" /\ text \notin dhist.admitted
                    THEN [dhist EXCEPT !.nearSeen = @ \cup { text }]
                    ELSE dhist
        /\ idx' = IF v[1] THEN idx ELSE AddToIndex(idx, text, None)
        /\ UNCHANGED indexFile
        /\ UNCHANGED outsideDedup

\* is_duplicate(text)
is_duplicate(text) ==
    LET v == IsDuplicate(idx, text)
    IN  /\ dres' = [DedupOutcome("is_duplicate", "ok", text) EXCEPT !.verdict = v]
        /\ dhist' = IF v[2] = "near" /\ text \notin dhist.admitted
                    THEN [dhist EXCEPT !.nearSeen = @ \cup { text }]
                    ELSE dhist
        /\ UNCHANGED << idx, indexFile >>
        /\ UNCHANGED outsideDedup

\* A record of a batch: its text, and n for the rest of the record, which
\* tells two records of the same text apart.
BatchRecord(text, n) == [text |-> text, n |-> n]

\* The batch of the records of the given texts, in their order.
BatchOf(texts) == [i \in 1..Len(texts) |-> BatchRecord(texts[i], i)]

\* The batches given to deduplicate_batch: no record; one record; the same
\* text twice; two texts with the same shingles; two unrelated texts; a
\* record without text before one with text; a text, a near-duplicate of it
\* and the text again.
DedupBatches ==
    { BatchOf(<< >>),
      BatchOf(<< Rep("a", 6) >>),
      BatchOf(<< Rep("a", 6), Rep("a", 6) >>),
      BatchOf(<< Rep("a", 7), Rep("a", 6) >>),
      BatchOf(<< Rep("a", 6), Rep("b", 6) >>),
      BatchOf(<< EmptyStr, Rep("b", 6) >>),
      BatchOf(<< Rep("b", 6), Rep("a", 7), Rep("b", 6) >>) }

\* self._add_to_index(content) of deduplicate_batch, left out.
BatchAdmit_Skipped(index, content) == index

\* self._add_to_index(content) of deduplicate_batch
BatchAdmit(index, content) == AddToIndex(index, content, None)

\* The loop of deduplicate_batch from record i on.  acc holds the index,
\* the records kept, the statistics, and the texts admitted and reported as
\* near-duplicates on the way.
RECURSIVE DedupLoop(_, _, _)
DedupLoop(records, i, acc) ==
    IF i > Len(records) THEN acc
    ELSE
      LET content == records[i].text
          v == IsDuplicate(acc.index, content)
      IN  IF content = EmptyStr THEN DedupLoop(records, i + 1, acc)
          ELSE IF v[1] /\ v[2] = "exact" THEN
            DedupLoop(records, i + 1,
                      [acc EXCEPT !.stats.exact_dupes = @ + 1])
          ELSE IF v[1] /\ v[2] = "near" THEN
            DedupLoop(records, i + 1,
                      [acc EXCEPT !.stats.near_dupes = @ + 1,
                                  !.near = @ \cup { content }])
          ELSE
            DedupLoop(records, i + 1,
                      [acc EXCEPT !.index = BatchAdmit(@, content),
                                  !.kept = Append(@, records[i]),
                                  !.stats.unique = @ + 1,
                                  !.admitted = @ \cup { content }])

\* deduplicate_batch(records): (unique, stats)
deduplicate_batch(records) ==
    LET start == [index |-> idx, kept |-> << >>,
                  stats |-> [total_input |-> Len(records), exact_dupes |-> 0,
                             near_dupes |-> 0, unique |-> 0],
                  admitted |-> {}, near |-> {}]
        end == DedupLoop(records, 1, start)
    IN  /\ dhist.nAdds + end.stats.unique <= MaxAdds
        /\ idx' = end.index
        /\ dres' = [DedupOutcome("deduplicate_batch", "ok", records)
                      EXCEPT !.kept = end.kept, !.stats = end.stats]
        /\ dhist' = [Noted(dhist, end.admitted, end.stats.unique)
                       EXCEPT !.nearSeen =
                                @ \cup (end.near \ (dhist.admitted \cup end.admitted))]
        /\ UNCHANGED indexFile
        /\ UNCHANGED outsideDedup

\* A line of train.jsonl or validation.jsonl: a JSON record with the
\* contents of its messages, or text that is not JSON.
ChatLine(contents) == [json |-> TRUE, messages |-> contents]

BadLine == [json |-> FALSE]

\* A record of three messages with the given assistant content.
ChatOf(answer) == ChatLine(<< << "s" >>, << "u" >>, answer >>)

\* The training data directories given to load_existing: no file; one
\* record; another record; a line that is not JSON between two records; a
\* record of two messages, and a validation.jsonl.
Corpora ==
    { [train |-> None, validation |-> None],
      [train |-> Some(<< ChatOf(Rep("a", 6)) >>), validation |-> None],
      [train |-> Some(<< ChatOf(Rep("b", 6)) >>), validation |-> None],
      [train |-> Some(<< ChatOf(Rep("a", 6)), BadLine, ChatOf(Rep("b", 6)) >>),
       validation |-> None],
      [train |-> Some(<< ChatLine(<< << "s" >>, << "u" >> >>),
                         ChatOf(Rep("b", 6)) >>),
       validation |-> Some(<< ChatOf(Rep("a", 7)) >>)] }

\* The loop of load_existing over the lines of one file, from line i on.
\* acc holds the index, the local `loaded`, the exception raised if any, and
\* the texts admitted on the way.  json.loads(line) raises
\* json.JSONDecodeError on a line that is not JSON, and load_existing does
\* not catch it.
RECURSIVE LoadLoop(_, _, _)
LoadLoop(lines, i, acc) ==
    IF i > Len(lines) \/ acc.status # "ok" THEN acc
    ELSE IF ~lines[i].json THEN [acc EXCEPT !.status = "JSONDecodeError"]
    ELSE IF Len(lines[i].messages) >= 3 THEN
      LET content == lines[i].messages[3]
      IN  LoadLoop(lines, i + 1,
                   [acc EXCEPT !.index = AddToIndex(@, content,
                                                    Some(ExistingKey(acc.loaded))),
                               !.loaded = @ + 1,
                               !.admitted = @ \cup { content }])
    ELSE LoadLoop(lines, i + 1, acc)

\* The lines of a file that may not exist.
LinesOf(file) == IF IsNone(file) THEN << >> ELSE file[1]

\* load_existing(training_data_path): train.jsonl, then validation.jsonl.
load_existing(corpus) ==
    LET start == [index |-> idx, loaded |-> 0, status |-> "ok", admitted |-> {}]
        mid == LoadLoop(LinesOf(corpus.train), 1, start)
        end == LoadLoop(LinesOf(corpus.validation), 1, mid)
    IN  /\ dhist.nAdds + end.loaded <= MaxAdds
        /\ idx' = end.index
        /\ dres' = [DedupOutcome("load_existing", end.status, corpus)
                      EXCEPT !.loaded = end.loaded]
        /\ dhist' = Noted(dhist, end.admitted, end.loaded)
        /\ UNCHANGED indexFile
        /\ UNCHANGED outsideDedup

\* list(a_set): the elements of the set, each once, in an order that
\* depends on the hashes of the strings, which differ from one process to
\* the next; these are the lists it can be.
SetToList(S) ==
    { list \in [1..Cardinality(S) -> S] :
        \A x \in S : \E i \in 1..Cardinality(S) : list[i] = x }

\* set(a_list)
ListToSet(list) == { list[i] : i \in 1..Len(list) }

\* save_index(path): json.dump(list(self.exact_hashes), f)
save_index ==
    /\ \E list \in SetToList(idx.exact_hashes) : indexFile' = Some(list)
    /\ dres' = DedupOutcome("save_index", "ok", << >>)
    /\ dhist' = [dhist EXCEPT !.saved = [admitted |-> dhist.admitted,
                                         sinceLoad |-> dhist.sinceLoad,
                                         nearSeen |-> dhist.nearSeen,
                                         loaded |-> dhist.loaded]]
    /\ UNCHANGED idx
    /\ UNCHANGED outsideDedup

\* The exact set after load_index, were the set read added to the index's.
LoadedHashes_Added(index, list) == index.exact_hashes \cup ListToSet(list)

\* The exact set after load_index, were the set read never assigned.
LoadedHashes_Unassigned(index, list) == index.exact_hashes

\* self.exact_hashes = set(json.loads(f.read()))
LoadedHashes(index, list) == ListToSet(list)

\* load_index(path): nothing when the file does not exist.
load_index ==
    /\ dres' = DedupOutcome("load_index", "ok", << >>)
    /\ IF IsNone(indexFile)
       THEN UNCHANGED << idx, dhist >>
       ELSE /\ idx' = [idx EXCEPT !.exact_hashes = LoadedHashes(idx, indexFile[1])]
            /\ dhist' = [dhist EXCEPT !.sinceLoad = {}, !.loaded = TRUE,
                                      !.restored = (dhist.admitted = {}
                                                    /\ ~dhist.loaded)]
    /\ UNCHANGED indexFile
    /\ UNCHANGED outsideDedup

\* The version store, left alone while the index is exercised.
StoreIdle ==
    /\ manifest = EmptyManifest
    /\ diskManifest = None
    /\ versionsDirExists = FALSE
    /\ versionFiles = EmptyFiles
    /\ trainingConfigured = FALSE
    /\ trainFile = None
    /\ backups = EmptyFiles
    /\ result = NoResult
    /\ nCreates = 0
    /\ nMerges = 0
    /\ lastMoved = None
    /\ deletedHighest = FALSE

InitDedup == StoreIdle /\ ProcessingIdle /\ run = NoRun

NextDedup ==
    \/ NewIndex
    \/ \E text \in Texts : add_to_index(text)
    \/ \E text \in Texts : is_duplicate(text)
    \/ \E records \in DedupBatches : deduplicate_batch(records)
    \/ \E corpus \in Corpora : load_existing(corpus)
    \/ save_index
    \/ load_index

SpecDedup == InitDedup /\ [][NextDedup]_vars

(* --------------------- claims on the deduplication index --------------- *)

Exact == << TRUE, "exact" >>

Near == << TRUE, "near" >>

Unique == << FALSE, "" >>

\* C12, as stated: once _add_to_index(T) has been called on an index,
\* is_duplicate(T) reports an exact duplicate in every later state of that
\* index.
C12_AdmittedIsExactEverAfter ==
    (dres.op = "is_duplicate" /\ dres.arg \in dhist.admitted)
        => dres.verdict = Exact

\* The MinHash of the text is stored in the near-duplicate index.
MinhashStored(text) ==
    \E key \in DOMAIN idx.minhashes :
        /\ key \in DOMAIN idx.lsh
        /\ idx.minhashes[key] = << MakeMinhash(text), Len(text) >>

\* C12, amended: once _add_to_index(T) has been called on an index,
\* is_duplicate(T) reports an exact duplicate in every later state of that
\* index up to its next load_index of an existing file, which replaces the
\* exact set by the file's.  For a text admitted before that load_index and
\* not again since, is_duplicate reports an exact duplicate exactly when
\* the fingerprint is in the exact set, and otherwise a near-duplicate
\* whenever the MinHash of the text is stored in the near-duplicate index.
C12_AdmittedIsExactUntilLoad ==
    /\ (dres.op = "is_duplicate" /\ dres.arg \in dhist.sinceLoad)
           => dres.verdict = Exact
    /\ (dres.op = "is_duplicate"
        /\ dres.arg \in dhist.admitted \ dhist.sinceLoad)
           => /\ dres.verdict = Exact
                  <=> Fingerprint(dres.arg) \in idx.exact_hashes
              /\ (Fingerprint(dres.arg) \notin idx.exact_hashes
                  /\ MinhashStored(dres.arg))
                     => dres.verdict = Near

\* An index that ran load_index, admitted a text afterwards and reports it
\* as an exact duplicate.
C12_Witness ==
    /\ dres.op = "is_duplicate"
    /\ dhist.loaded
    /\ dres.arg \in dhist.sinceLoad
    /\ dres.verdict = Exact

\* An index reports a text it admitted before its load_index as a
\* near-duplicate: the fingerprint left the exact set with the load, the
\* MinHash stayed.
NearAfterLoad ==
    /\ dres.op = "is_duplicate"
    /\ dres.arg \in dhist.admitted \ dhist.sinceLoad
    /\ Fingerprint(dres.arg) \notin idx.exact_hashes
    /\ MinhashStored(dres.arg)
    /\ dres.verdict = Near

\* An index reports a text it admitted before its load_index as unique:
\* the fingerprint left the exact set with the load, and the MinHash was
\* never stored, because its insertion was refused.
UniqueAfterLoad ==
    /\ dres.op = "is_duplicate"
    /\ dres.arg \in dhist.admitted \ dhist.sinceLoad
    /\ Fingerprint(dres.arg) \notin idx.exact_hashes
    /\ ~MinhashStored(dres.arg)
    /\ dres.verdict = Unique

\* C13: deduplicate_batch never keeps a record whose text is that of an
\* earlier record of the batch; on an empty index, of two records with the
\* same non-empty text exactly the first is kept and one exact duplicate is
\* counted.
C13_BatchKeepsNoRepeatedText ==
    [][(dres'.op = "deduplicate_batch")
          => LET batch == dres'.arg
                 kept == dres'.kept
             IN  /\ \A j \in 1..Len(kept) :
                        /\ kept[j].n \in 1..Len(batch)
                        /\ batch[kept[j].n] = kept[j]
                        /\ \A i \in 1..(kept[j].n - 1) :
                               batch[i].text # kept[j].text
                 /\ ( /\ idx.exact_hashes = {}
                      /\ DOMAIN idx.lsh = {}
                      /\ Len(batch) = 2
                      /\ batch[1].text = batch[2].text
                      /\ batch[1].text # EmptyStr )
                    => /\ kept = << batch[1] >>
                       /\ dres'.stats.exact_dupes = 1
                       /\ dres'.stats.near_dupes = 0
                       /\ dres'.stats.unique = 1]_vars

\* The batch of the same text twice, given to an empty index.
C13_Witness ==
    /\ dres.op = "deduplicate_batch"
    /\ dres.arg = BatchOf(<< Rep("a", 6), Rep("a", 6) >>)
    /\ dres.kept = << BatchRecord(Rep("a", 6), 1) >>
    /\ dres.stats.exact_dupes = 1
    /\ idx.counter = 1
    /\ idx.exact_hashes = { Fingerprint(Rep("a", 6)) }

\* C14: is_duplicate leaves the exact set, the near-duplicate index and the
\* key counter of the index as they were, whatever its verdict.
C14_CheckIsReadOnly ==
    [][(dres'.op = "is_duplicate")
          => /\ dres'.verdict \in { Exact, Near, Unique }
             /\ idx'.exact_hashes = idx.exact_hashes
             /\ idx'.lsh = idx.lsh
             /\ idx'.minhashes = idx.minhashes
             /\ idx'.counter = idx.counter
             /\ indexFile' = indexFile]_vars

\* A text found unique by an index that holds another text.
C14_Witness ==
    /\ dres.op = "is_duplicate"
    /\ dres.verdict = Unique
    /\ idx.exact_hashes # {}
    /\ DOMAIN idx.lsh # {}

\* The records of a file that load_existing indexes: those of the lines that
\* are JSON and have at least 3 messages.
IndexableAnswers(file) ==
    { LinesOf(file)[i].messages[3] :
        i \in { j \in 1..Len(LinesOf(file)) :
                  /\ LinesOf(file)[j].json
                  /\ Len(LinesOf(file)[j].messages) >= 3 } }

\* C15: load_existing raises no error on a file with a line that is not
\* JSON; it skips the line and indexes the records of the other lines.
C15_LoadSkipsMalformedLines ==
    (dres.op = "load_existing")
        => /\ dres.status = "ok"
           /\ \A answer \in IndexableAnswers(dres.arg.train)
                                \cup IndexableAnswers(dres.arg.validation) :
                  Fingerprint(answer) \in idx.exact_hashes

\* What a new index that ran load_index on the saved file reports, for the
\* texts that the saving index had admitted and for those it had reported as
\* near-duplicates without ever admitting them.
RestoredReports ==
    /\ DOMAIN idx.lsh = {}
    /\ DOMAIN idx.minhashes = {}
    /\ (dres.op = "is_duplicate" /\ dres.arg \in dhist.saved.admitted)
           => dres.verdict = Exact
    /\ (dres.op = "is_duplicate" /\ dres.arg \in dhist.saved.nearSeen)
           => dres.verdict = Unique

ExactThoughNeverAdmitted ==
    /\ dhist.restored
    /\ dres.op = "is_duplicate"
    /\ dres.arg \in dhist.saved.nearSeen
    /\ dres.verdict = Exact

(* ========================== the quality filter ======================== *)
(* src/processors/quality_filter.py, filter_record.  The ratios of a       *)
(* configuration are kept in percent, and a quotient is compared with a    *)
(* ratio by cross-multiplication.                                          *)

\* str.isalpha() on the characters of the inputs
Letters ==
    { "a", "b", "c", "d", "e", "f", "g", "h", "i", "j", "k", "l", "m",
      "n", "o", "p", "q", "r", "s", "t", "u", "v", "w", "x", "y", "z" }

\* \s, and what str.strip() removes
Spaces == { " ", "\n", "\t" }

\* \d and \.
Numbering == { DigitChars[i] : i \in 1..10 } \cup { "." }

\* \s \| _ \- =
Borders == Spaces \cup { "|", "_", "-", "=" }

\* "<!-- image -->"
ImageArtifact ==
    << "<", "!", "-", "-", " ", "i", "m", "a", "g", "e", " ", "-", "-", ">" >>

\* text.lstrip() and text.rstrip()
RECURSIVE LStrip(_)
LStrip(text) ==
    IF Len(text) > 0 /\ text[1] \in Spaces THEN LStrip(Tail(text)) ELSE text

RECURSIVE RStrip(_)
RStrip(text) ==
    IF Len(text) > 0 /\ text[Len(text)] \in Spaces
    THEN RStrip(SubSeq(text, 1, Len(text) - 1))
    ELSE text

\* text.strip()
Strip(text) == RStrip(LStrip(text))

\* re.match(r"^[...]+$", text) for a character class: the text is not empty
\* and is made of characters of the class, but for one "\n" that may end it.
MatchesClass(text, class) ==
    LET core == IF Len(text) > 0 /\ text[Len(text)] = "\n"
                THEN SubSeq(text, 1, Len(text) - 1)
                ELSE text
    IN  \/ /\ Len(text) > 0
           /\ \A i \in 1..Len(text) : text[i] \in class
        \/ /\ Len(core) > 0
           /\ \A i \in 1..Len(core) : core[i] \in class

\* text.count(pattern): the occurrences that do not overlap, from the left.
RECURSIVE Count(_, _)
Count(text, pattern) ==
    IF Len(text) < Len(pattern) THEN 0
    ELSE IF SubSeq(text, 1, Len(pattern)) = pattern
         THEN 1 + Count(SubSeq(text, Len(pattern) + 1, Len(text)), pattern)
         ELSE Count(Tail(text), pattern)

\* table_chars of filter_record
TableChars(text) ==
    Count(text, << "|" >>) + Count(text, << "-", "-", "-" >>) * 3
        + Count(text, << "=", "=", "=" >>) * 3

\* alpha_count of filter_record
AlphaCount(text) == Cardinality({ i \in 1..Len(text) : text[i] \in Letters })

\* FilterConfig(...)
FilterConfig(min_content_length, min_answer_length, max_answer_length, max_table_pct, min_alpha_pct, max_image_artifacts) ==
    [min_content_length |-> min_content_length,
     min_answer_length |-> min_answer_length,
     max_answer_length |-> max_answer_length,
     max_table_pct |-> max_table_pct,
     min_alpha_pct |-> min_alpha_pct,
     max_image_artifacts |-> max_image_artifacts]

\* length_threshold = min_length or config.min_content_length
LengthThreshold(config, min_length) ==
    IF ~IsNone(min_length) /\ min_length[1] # 0
    THEN min_length[1]
    ELSE config.min_content_length

\* filter_record with the alpha ratio checked before the table ratio.
FilterRecord_AlphaBeforeTable(text, config, min_length) ==
    IF Len(text) < LengthThreshold(config, min_length)
    THEN << FALSE, "too_short" >>
    ELSE IF config.max_answer_length # 0 /\ Len(text) > config.max_answer_length
    THEN << FALSE, "too_long" >>
    ELSE IF MatchesClass(Strip(text), Numbering)
    THEN << FALSE, "section_numbers_only" >>
    ELSE IF MatchesClass(Strip(text), Borders)
    THEN << FALSE, "table_borders_only" >>
    ELSE IF Len(text) > 0
            /\ AlphaCount(text) * 100 < config.min_alpha_pct * Len(text)
    THEN << FALSE, "low_alpha" >>
    ELSE IF Len(text) > 0
            /\ TableChars(text) * 100 > config.max_table_pct * Len(text)
    THEN << FALSE, "table_heavy" >>
    ELSE IF Count(text, ImageArtifact) > config.max_image_artifacts
    THEN << FALSE, "image_artifacts" >>
    ELSE << TRUE, "" >>

\* filter_record(text, config, min_length): (passed, rejection_reason)
FilterRecord(text, config, min_length) ==
    IF Len(text) < LengthThreshold(config, min_length)
    THEN << FALSE, "too_short" >>
    ELSE IF config.max_answer_length # 0 /\ Len(text) > config.max_answer_length
    THEN << FALSE, "too_long" >>
    ELSE IF MatchesClass(Strip(text), Numbering)
    THEN << FALSE, "section_numbers_only" >>
    ELSE IF MatchesClass(Strip(text), Borders)
    THEN << FALSE, "table_borders_only" >>
    ELSE IF Len(text) > 0
            /\ TableChars(text) * 100 > config.max_table_pct * Len(text)
    THEN << FALSE, "table_heavy" >>
    ELSE IF Len(text) > 0
            /\ AlphaCount(text) * 100 < config.min_alpha_pct * Len(text)
    THEN << FALSE, "low_alpha" >>
    ELSE IF Count(text, ImageArtifact) > config.max_image_artifacts
    THEN << FALSE, "image_artifacts" >>
    ELSE << TRUE, "" >>

\* The configurations given to filter_record: thresholds small enough for
\* short texts, with min_content_length below, at and above
\* min_answer_length; no minimum and no maximum; the defaults.
FilterConfigs ==
    { FilterConfig(4, 8, 20, 30, 30, 0),
      FilterConfig(8, 8, 20, 30, 30, 2),
      FilterConfig(10, 8, 30, 30, 30, 0),
      FilterConfig(0, 8, 0, 30, 30, 2),
      FilterConfig(100, 200, 8000, 30, 30, 2) }

\* The min_length arguments: not given, 0, below and at min_answer_length.
MinLengths == { None, Some(0), Some(3), Some(8) }

\* The texts given to filter_record.
FilterTexts ==
    { EmptyStr,
      Rep("a", 3),
      Rep("a", 10),
      Rep("a", 24),
      << " ", "1", ".", "2", ".", "3", ".", "4", ".", "5", "\n" >>,
      << "1", ".", "2", ".", "3", ".", "4", ".", "5", ".", "6" >>,
      << "|", "-", "-", "-", "|", "-", "-", "-", "|", "\n", "|", "_", "=", "|" >>,
      << "a", "|", "b", "|", "c", "|", "d", "|", "e", "|", "f" >>,
      << "-", "-", "-", "-", "-", "-", "-", "a", "b", "c", "d", "e" >>,
      << "a", " ", "1", "2", "3", "4", "5", " ", "6", "7", "8" >>,
      << "1", "|", "2", "|", "3", "|", "4", "|", "5", "|", "6" >>,
      ImageArtifact \o Rep("a", 6),
      ImageArtifact \o << "1", "2", "3", "4", "5", "6", "7", "8", "9", "0", ".", "1", "2" >>,
      Rep("a", 2) \o ImageArtifact \o ImageArtifact \o ImageArtifact }

\* A call to come: its arguments, no result yet.
FilterCall(text, config, min_length) ==
    [text |-> text, config |-> config, min_length |-> min_length,
     out |-> None, fromAccepted |-> FALSE]

\* filter_record(text, config, min_length) on the arguments of the state.
filter_record ==
    /\ IsNone(qf.out)
    /\ qf' = [qf EXCEPT !.out = Some(FilterRecord(qf.text, qf.config, qf.min_length))]
    /\ UNCHANGED outsideFilter

\* The caller cuts the text to its first n characters, for another call
\* with the same configuration.  fromAccepted records that a text this one
\* was cut from was accepted.
Truncate(n) ==
    /\ n < Len(qf.text)
    /\ qf' = [qf EXCEPT !.text = SubSeq(qf.text, 1, n),
                        !.out = None,
                        !.fromAccepted = (@ \/ qf.out = Some(<< TRUE, "" >>))]
    /\ UNCHANGED outsideFilter

InitFilter ==
    /\ StoreIdle
    /\ DedupIdle
    /\ vl = NoValidation
    /\ run = NoRun
    /\ writers = NoWriters
    /\ qf \in { FilterCall(text, config, min_length) :
                  text \in FilterTexts, config \in FilterConfigs,
                  min_length \in MinLengths }

NextFilter ==
    \/ filter_record
    \/ \E n \in 0..Len(qf.text) : Truncate(n)

SpecFilter == InitFilter /\ [][NextFilter]_vars

(* ------------------------ claims on the quality filter ----------------- *)

\* The checks of the filter, in the order of the specification.
CheckOrder ==
    << "too_short", "too_long", "section_numbers_only", "table_borders_only",
       "table_heavy", "low_alpha", "image_artifacts" >>

\* The length below which a text is too short: the min_length argument if
\* it is given and not 0, and min_content_length of the configuration
\* otherwise.
EffectiveThreshold(config, min_length) ==
    IF min_length \in { None, Some(0) } THEN config.min_content_length
    ELSE min_length[1]

\* The check fails on the text, taken alone.
CheckFails(check, text, config, min_length) ==
    CASE check = "too_short" ->
           Len(text) < EffectiveThreshold(config, min_length)
      [] check = "too_long" ->
           config.max_answer_length # 0 /\ Len(text) > config.max_answer_length
      [] check = "section_numbers_only" ->
           LET core == Strip(text)
           IN  core # EmptyStr /\ \A i \in 1..Len(core) : core[i] \in Numbering
      [] check = "table_borders_only" ->
           LET core == Strip(text)
           IN  core # EmptyStr /\ \A i \in 1..Len(core) : core[i] \in Borders
      [] check = "table_heavy" ->
           text # EmptyStr
           /\ TableChars(text) * 100 > config.max_table_pct * Len(text)
      [] check = "low_alpha" ->
           text # EmptyStr
           /\ AlphaCount(text) * 100 < config.min_alpha_pct * Len(text)
      [] check = "image_artifacts" ->
           Count(text, ImageArtifact) > config.max_image_artifacts

\* The positions in CheckOrder of the checks that fail on the arguments of
\* the state.
FailingChecks ==
    { i \in 1..Len(CheckOrder) :
        CheckFails(CheckOrder[i], qf.text, qf.config, qf.min_length) }

\* C17: filter_record returns on every text; it accepts the text when no
\* check fails, and otherwise rejects it with the first failing check in
\* the order too_short, too_long, section_numbers_only, table_borders_only,
\* table_heavy, low_alpha, image_artifacts as the reason.
C17_FirstFailingCheckIsReported ==
    /\ IsNone(qf.out) => ENABLED filter_record
    /\ ~IsNone(qf.out)
         => qf.out[1] = IF FailingChecks = {}
                        THEN << TRUE, "" >>
                        ELSE << FALSE,
                                CheckOrder[CHOOSE i \in FailingChecks :
                                             \A j \in FailingChecks : i <= j] >>

\* A text on which both the table ratio and the alpha ratio fail, rejected
\* as table_heavy.
C17_Witness ==
    /\ ~IsNone(qf.out)
    /\ qf.out[1] = << FALSE, "table_heavy" >>
    /\ CheckFails("low_alpha", qf.text, qf.config, qf.min_length)
    /\ CheckFails("table_heavy", qf.text, qf.config, qf.min_length)

\* C18, as stated: every truncation of an accepted text to fewer than
\* min_answer_length characters is rejected as too_short under the same
\* configuration.
C18_TruncationBelowMinAnswerLengthIsTooShort ==
    ( /\ ~IsNone(qf.out)
      /\ qf.fromAccepted
      /\ Len(qf.text) < qf.config.min_answer_length )
        => qf.out[1] = << FALSE, "too_short" >>

(* ============================= the validator ========================== *)
(* src/pipeline/validator.py, class DataValidator.  A format error, a      *)
(* quality warning or a comparison note is kept as the record of what its  *)
(* message is formatted from; result.stats is left out.  An average is     *)
(* compared with an integer threshold by cross-multiplication, which       *)
(* decides as the float quotient does; pct_diff, the result of four        *)
(* rounded operations, is computed in binary64.                            *)

\* Largest number of records in a batch given to validate_all.
MaxValidated == 2

\* A chat message, and a record: `messages` is None when the record has no
\* such key, `source` likewise.
Message(role, content) == [role |-> role, content |-> content]

ChatRecord(messages, source) == [messages |-> messages, source |-> source]

\* "CMMC", and a system prompt that holds it
Keyword == << "C", "M", "M", "C" >>

SystemPrompt == Keyword \o << " ", "x" >>

\* The three messages of a well-formed record with the given answer.
Chat(answer) ==
    << Message("system", SystemPrompt), Message("user", << "q" >>),
       Message("assistant", answer) >>

\* The records given to validate_all: a well-formed record with a source;
\* one with a longer answer and no source; one whose system prompt lacks
\* the keyword; one without messages; one of two messages; one with the
\* roles out of order; one with an empty answer; one with a blank
\* question; one with an empty fourth message.
ValidatedRecords ==
    { ChatRecord(Some(Chat(Rep("a", 4))), Some(<< "s" >>)),
      ChatRecord(Some(Chat(Rep("a", 6))), None),
      ChatRecord(Some(<< Message("system", << "x" >>), Message("user", << "q" >>),
                         Message("assistant", Rep("a", 4)) >>), Some(<< "s" >>)),
      ChatRecord(None, Some(<< "s" >>)),
      ChatRecord(Some(SubSeq(Chat(Rep("a", 4)), 1, 2)), Some(<< "s" >>)),
      ChatRecord(Some(<< Message("user", << "q" >>), Message("system", SystemPrompt),
                         Message("assistant", Rep("a", 4)) >>), Some(<< "s" >>)),
      ChatRecord(Some(Chat(EmptyStr)), Some(<< "s" >>)),
      ChatRecord(Some(<< Message("system", SystemPrompt), Message("user", << " " >>),
                         Message("assistant", Rep("a", 4)) >>), Some(<< "s" >>)),
      ChatRecord(Some(Chat(Rep("a", 4)) \o << Message("user", EmptyStr) >>),
                 Some(<< "s" >>)) }

ValidatedBatches ==
    UNION { [1..len -> ValidatedRecords] : len \in 0..MaxValidated }

\* DataValidator(config)
ValidatorConfig(min_records, max_quality_drop_pct, min_avg_answer_length, max_avg_answer_length) ==
    [min_records |-> min_records,
     max_quality_drop |-> max_quality_drop_pct,
     min_avg_length |-> min_avg_answer_length,
     max_avg_length |-> max_avg_answer_length,
     required_system_prompt_substring |-> Keyword]

\* The configurations: thresholds small enough for the batches, and the
\* defaults.
ValidatorConfigs ==
    { ValidatorConfig(1, 5, 3, 5),
      ValidatorConfig(2, 50, 5, 8),
      ValidatorConfig(10, 5, 200, 5000) }

\* The existing_path arguments: none, and directories of training data,
\* one of them with answers of 8/3 characters on average.
ExistingPaths == { None } \cup { Some(corpus) : corpus \in Corpora }
    \cup { Some([train |-> Some(<< ChatOf(EmptyStr) >>), validation |-> None]),
           Some([train |-> Some(<< ChatOf(Rep("a", 4)), ChatOf(Rep("a", 4)),
                                   ChatOf(EmptyStr) >>),
                 validation |-> None]) }

\* sub in text
Contains(text, sub) ==
    \E i \in 0..(Len(text) - Len(sub)) : SubSeq(text, i + 1, i + Len(sub)) = sub

\* ValidationResult(total_records=len(records))
NewResult(records) ==
    [passed |-> TRUE, total_records |-> Len(records), format_errors |-> << >>,
     quality_warnings |-> << >>, comparison_notes |-> << >>]

FormatError(r, text) == [r EXCEPT !.format_errors = Append(@, text)]

Warning(r, text) == [r EXCEPT !.quality_warnings = Append(@, text)]

\* The role checks of _validate_format on messages j.. of record i (both
\* counted from 0, as in the messages).
RECURSIVE RoleErrors(_, _, _, _)
RoleErrors(messages, i, j, r) ==
    LET expected_roles == << "system", "user", "assistant" >>
    IN  IF j >= Len(expected_roles) \/ j >= Len(messages) THEN r
        ELSE IF messages[j + 1].role # expected_roles[j + 1]
        THEN RoleErrors(messages, i, j + 1,
                        FormatError(r, [record |-> i, message |-> j,
                                        error |-> "role"]))
        ELSE RoleErrors(messages, i, j + 1, r)

\* The content checks of _validate_format, on every message of the record.
RECURSIVE ContentErrors(_, _, _, _)
ContentErrors(messages, i, j, r) ==
    IF j >= Len(messages) THEN r
    ELSE IF Strip(messages[j + 1].content) = EmptyStr
    THEN ContentErrors(messages, i, j + 1,
                       FormatError(r, [record |-> i, message |-> j,
                                       error |-> "empty content"]))
    ELSE ContentErrors(messages, i, j + 1, r)

\* not record.get("source")
NoSource(record) == record.source \in { None, Some(EmptyStr) }

\* The body of the loop of _validate_format for record i.
FormatOfRecord(record, i, config, r) ==
    IF IsNone(record.messages)
    THEN FormatError(r, [record |-> i, error |-> "messages is not a list"])
    ELSE IF Len(record.messages[1]) < 3
    THEN FormatError(r, [record |-> i, error |-> "needs >= 3 messages",
                         got |-> Len(record.messages[1])])
    ELSE
      LET messages == record.messages[1]
          r1 == ContentErrors(messages, i, 0, RoleErrors(messages, i, 0, r))
          r2 == IF Contains(messages[1].content,
                            config.required_system_prompt_substring)
                THEN r1
                ELSE Warning(r1, [record |-> i, warning |-> "system prompt"])
      IN  IF NoSource(record)
          THEN Warning(r2, [record |-> i, warning |-> "missing source"])
          ELSE r2

\* _validate_format(records, result), from record i on.
RECURSIVE ValidateFormat(_, _, _, _)
ValidateFormat(records, i, config, r) ==
    IF i >= Len(records) THEN r
    ELSE ValidateFormat(records, i + 1, config,
                        FormatOfRecord(records[i + 1], i, config, r))

\* len(messages[2].get("content", "")) for the records that have at least 3
\* messages; record.get("messages", []) is [] for a record without the key.
AnswerLengths(records) ==
    LET MessagesOf(record) ==
            IF IsNone(record.messages) THEN << >> ELSE record.messages[1]
        HasAnswer(record) == Len(MessagesOf(record)) >= 3
        answering == SelectSeq(records, HasAnswer)
    IN  [k \in 1..Len(answering) |-> Len(MessagesOf(answering[k])[3].content)]

\* sum(lengths)
RECURSIVE Sum(_)
Sum(lengths) ==
    IF Len(lengths) = 0 THEN 0 ELSE Head(lengths) + Sum(Tail(lengths))

\* _validate_quality(records, result)
ValidateQuality(records, config, r) ==
    IF Len(records) < config.min_records
    THEN FormatError(r, [error |-> "Too few records", got |-> Len(records),
                         minimum |-> config.min_records])
    ELSE
      LET answer_lengths == AnswerLengths(records)
          n == Len(answer_lengths)
          below == n > 0 /\ Sum(answer_lengths) < config.min_avg_length * n
          above == n > 0 /\ Sum(answer_lengths) > config.max_avg_length * n
          r1 == IF below THEN Warning(r, [warning |-> "average below"]) ELSE r
      IN  IF above THEN Warning(r1, [warning |-> "average above"]) ELSE r1

\* The records read from train.jsonl and validation.jsonl of the existing
\* data, or the json.JSONDecodeError of a line that is not JSON.
ReadExisting(corpus) ==
    LET lines == LinesOf(corpus.train) \o LinesOf(corpus.validation)
    IN  IF \E k \in 1..Len(lines) : ~lines[k].json
        THEN [status |-> "JSONDecodeError", records |-> << >>]
        ELSE [status |-> "ok", records |-> lines]

\* len(messages[2].get("content", "")) for the existing records that have
\* at least 3 messages.
ExistingLengths(existing_records) ==
    LET HasAnswer(line) == Len(line.messages) >= 3
        answering == SelectSeq(existing_records, HasAnswer)
    IN  [k \in 1..Len(answering) |-> Len(answering[k].messages[3])]

(* ------------------------- binary64 arithmetic ------------------------- *)
(* The averages and pct_diff of _validate_against_existing are Python     *)
(* floats: IEEE 754 binary64, every operation rounded to nearest, ties to *)
(* even.  A float is zero or m * 2^e with 2^52 <= m < 2^53; m is kept in  *)
(* two digits of base 2^27, which holds the naturals below 2^58.          *)

\* 2^27
Limb == 134217728

Wide(hi, lo) == [hi |-> hi, lo |-> lo]

\* x + y
Plus(x, y) ==
    [hi |-> x.hi + y.hi + (x.lo + y.lo) \div Limb, lo |-> (x.lo + y.lo) % Limb]

\* x - y, for x >= y
Minus(x, y) ==
    IF x.lo >= y.lo THEN [hi |-> x.hi - y.hi, lo |-> x.lo - y.lo]
    ELSE [hi |-> x.hi - y.hi - 1, lo |-> x.lo + Limb - y.lo]

\* x >= y
AtLeast(x, y) == x.hi > y.hi \/ (x.hi = y.hi /\ x.lo >= y.lo)

\* x // 2
Half(x) ==
    [hi |-> x.hi \div 2, lo |-> x.lo \div 2 + (x.hi % 2) * (Limb \div 2)]

\* 0.0
FloatZero == [m |-> Wide(0, 0), e |-> 0]

\* The float nearest to (n + f) * 2^e, ties to even, where the fraction f
\* is 1/2 or more exactly when `guard` holds and is other than 0 and 1/2
\* exactly when `sticky` holds: x is [n, guard, sticky, e].
RECURSIVE Rounded(_)
Rounded(x) ==
    IF x.n = Wide(0, 0) THEN FloatZero
    ELSE IF x.n.hi >= Limb \div 2
    THEN Rounded([n |-> Half(x.n), guard |-> x.n.lo % 2 = 1,
                  sticky |-> x.sticky \/ x.guard, e |-> x.e + 1])
    ELSE IF x.n.hi < Limb \div 4
    THEN Rounded([n |-> Plus(x.n, x.n), guard |-> FALSE, sticky |-> FALSE,
                  e |-> x.e - 1])
    ELSE LET up == x.guard /\ (x.sticky \/ x.n.lo % 2 = 1)
             m  == IF up THEN Plus(x.n, Wide(0, 1)) ELSE x.n
         IN  IF m.hi >= Limb \div 2 THEN [m |-> Half(m), e |-> x.e + 1]
             ELSE [m |-> m, e |-> x.e]

\* The float nearest to n * 2^e
Exactly(n, e) == Rounded([n |-> n, guard |-> FALSE, sticky |-> FALSE, e |-> e])

\* float(n) of an int below 2^27
IntToFloat(n) == Exactly(Wide(0, n), 0)

\* k more binary digits of x.r / d appended to x.q, for x.r < 2 * d: the
\* digits and twice the remainder.
RECURSIVE QuotientBits(_, _, _)
QuotientBits(x, d, k) ==
    IF k = 0 THEN x
    ELSE IF AtLeast(x.r, d)
    THEN QuotientBits([r |-> Plus(Minus(x.r, d), Minus(x.r, d)),
                       q |-> Plus(Plus(x.q, x.q), Wide(0, 1))], d, k - 1)
    ELSE QuotientBits([r |-> Plus(x.r, x.r), q |-> Plus(x.q, x.q)], d, k - 1)

\* a / b of two floats, b not zero
FloatDiv(a, b) ==
    IF a = FloatZero THEN FloatZero
    ELSE LET ge == AtLeast(a.m, b.m)
             d  == QuotientBits([r |-> IF ge THEN a.m ELSE Plus(a.m, a.m),
                                 q |-> Wide(0, 0)], b.m, 53)
             guard == AtLeast(d.r, b.m)
         IN  Rounded([n |-> d.q, guard |-> guard,
                      sticky |-> IF guard THEN d.r # b.m ELSE d.r # Wide(0, 0),
                      e |-> a.e - b.e - (IF ge THEN 52 ELSE 53)])

\* a > b of two floats that are not negative
FloatGreater(a, b) ==
    IF a = FloatZero THEN FALSE
    ELSE IF b = FloatZero THEN TRUE
    ELSE a.e > b.e \/ (a.e = b.e /\ ~AtLeast(b.m, a.m))

\* n // 2^k, and whether a digit shifted out was set
RECURSIVE Lowered(_, _)
Lowered(x, k) ==
    IF k = 0 \/ x.n = Wide(0, 0) THEN x
    ELSE Lowered([n |-> Half(x.n), lost |-> x.lost \/ x.n.lo % 2 = 1], k - 1)

\* n * 2^k
RECURSIVE Raised(_, _)
Raised(n, k) == IF k = 0 \/ n = Wide(0, 0) THEN n ELSE Raised(Plus(n, n), k - 1)

\* abs(a - b) of two floats that are not negative: exact when the
\* exponents differ by 3 or less, and otherwise with the smaller operand
\* cut to 3 digits below the larger one's last.
FloatAbsDiff(a, b) ==
    IF a = b THEN FloatZero
    ELSE LET x == IF FloatGreater(a, b) THEN a ELSE b
             y == IF FloatGreater(a, b) THEN b ELSE a
         IN  IF y = FloatZero THEN x
             ELSE IF x.e - y.e <= 3
             THEN Exactly(Minus(Raised(x.m, x.e - y.e), y.m), y.e)
             ELSE LET cut == Lowered([n |-> y.m, lost |-> FALSE], x.e - y.e - 3)
                      whole == Minus(Raised(x.m, 3), cut.n)
                  IN  IF cut.lost
                      THEN Rounded([n |-> Minus(whole, Wide(0, 1)), guard |-> FALSE,
                                    sticky |-> TRUE, e |-> x.e - 3])
                      ELSE Exactly(whole, x.e - 3)

\* a * 100: 25 * m is 8 * 3 * m + m
FloatTimes100(a) ==
    IF a = FloatZero THEN FloatZero
    ELSE Exactly(Plus(Raised(Plus(Plus(a.m, a.m), a.m), 3), a.m), a.e + 2)

\* abs(new_avg - existing_avg) / existing_avg * 100, the averages being
\* sum(lengths) / len(lengths)
PctDiff(existing_sum, existing_n, new_sum, new_n) ==
    LET existing_avg == FloatDiv(IntToFloat(existing_sum), IntToFloat(existing_n))
        new_avg == FloatDiv(IntToFloat(new_sum), IntToFloat(new_n))
    IN  FloatTimes100(FloatDiv(FloatAbsDiff(new_avg, existing_avg), existing_avg))

\* _validate_against_existing(records, existing_path, result): the result,
\* or the exception raised.
ValidateAgainstExisting(records, corpus, config, r) ==
    LET read == ReadExisting(corpus)
        existing_lengths == ExistingLengths(read.records)
        new_lengths == AnswerLengths(records)
        se == Sum(existing_lengths)
        ne == Len(existing_lengths)
        sn == Sum(new_lengths)
        nn == Len(new_lengths)
        compared == [r EXCEPT !.comparison_notes =
                                  Append(@, [note |-> "compared",
                                             existing |-> Len(read.records)])]
    IN  IF read.status # "ok" THEN [status |-> read.status, r |-> r]
        ELSE IF Len(read.records) = 0
        THEN [status |-> "ok",
              r |-> [r EXCEPT !.comparison_notes =
                                  Append(@, [note |-> "no existing data"])]]
        ELSE IF ne > 0 /\ nn > 0
        THEN IF se = 0
             THEN [status |-> "ZeroDivisionError", r |-> r]
             ELSE IF FloatGreater(PctDiff(se, ne, sn, nn),
                                  IntToFloat(config.max_quality_drop))
             THEN [status |-> "ok",
                   r |-> [compared EXCEPT !.quality_warnings =
                            Append(@, [warning |-> "average differs"])]]
             ELSE [status |-> "ok", r |-> compared]
        ELSE [status |-> "ok", r |-> compared]

\* result.passed, were a batch with warnings failed.
Passed_WithoutWarnings(r) ==
    Len(r.format_errors) = 0 /\ Len(r.quality_warnings) = 0

\* result.passed = len(result.format_errors) == 0
Passed(r) == Len(r.format_errors) = 0

\* A call to come: its arguments, no result yet.
Validation(records, config, existing) ==
    [records |-> records, config |-> config, existing |-> existing,
     status |-> "called", out |-> None]

\* validate_all(records, existing_path) of a validator with the given
\* configuration: "ok" and the result, or the exception raised.
ValidateAll(records, config, existing) ==
    LET r1 == ValidateFormat(records, 0, config, NewResult(records))
        r2 == ValidateQuality(records, config, r1)
        end == IF IsNone(existing) THEN [status |-> "ok", r |-> r2]
               ELSE ValidateAgainstExisting(records, existing[1], config, r2)
    IN  [status |-> end.status,
         out |-> IF end.status = "ok"
                 THEN Some([end.r EXCEPT !.passed = Passed(end.r)])
                 ELSE None]

\* validate_all(records, existing_path) on the arguments of the state.
validate_all ==
    LET end == ValidateAll(vl.records, vl.config, vl.existing)
    IN  /\ vl.status = "called"
        /\ vl' = [vl EXCEPT !.status = end.status, !.out = end.out]
        /\ UNCHANGED outsideValidator

InitValidator ==
    /\ StoreIdle
    /\ DedupIdle
    /\ qf = NoFilterCall
    /\ run = NoRun
    /\ writers = NoWriters
    /\ vl \in { Validation(records, config, existing) :
                  records \in ValidatedBatches, config \in ValidatorConfigs,
                  existing \in ExistingPaths }

NextValidator == validate_all

SpecValidator == InitValidator /\ [][NextValidator]_vars

(* --------------------------- claims on the validator ------------------- *)

\* The record has at least 3 messages, the first three of the roles system,
\* user and assistant in this order, and no message whose content is empty
\* or made of whitespace only.
WellFormed(record) ==
    /\ ~IsNone(record.messages)
    /\ LET messages == record.messages[1]
       IN  /\ Len(messages) >= 3
           /\ << messages[1].role, messages[2].role, messages[3].role >>
                  = << "system", "user", "assistant" >>
           /\ \A j \in 1..Len(messages) :
                  \E k \in 1..Len(messages[j].content) :
                      messages[j].content[k] \notin Spaces

\* C19: validate_all returns passed = true exactly when it found no format
\* error, that is when the batch has at least min_records records and every
\* record is well formed; quality warnings never make a batch fail, and the
\* records given are neither changed nor dropped.
C19_PassedIffNoFormatError ==
    [][(vl.status = "called" /\ vl'.status = "ok")
          => LET r == vl'.out[1]
             IN  /\ r.passed <=> (r.format_errors = << >>)
                 /\ r.passed <=> ( /\ Len(vl.records) >= vl.config.min_records
                                   /\ \A i \in 1..Len(vl.records) :
                                          WellFormed(vl.records[i]) )
                 /\ vl'.records = vl.records
                 /\ r.total_records = Len(vl.records)]_vars

\* A batch of two records that passed with three quality warnings or more.
C19_Witness ==
    /\ vl.status = "ok"
    /\ vl.out[1].passed
    /\ Len(vl.records) = 2
    /\ Len(vl.out[1].quality_warnings) >= 3

(* ======================================================================= *)
(* run_pipeline (src/pipeline/runner.py): conversion, quality filter,      *)
(* deduplication, validation, snapshot and merge in one run.  The run      *)
(* starts from the converted records: scraping and conversion write only   *)
(* to data/raw and are left out.  The steps of the run are the positions   *)
(* of run.pc; the processors and the store are the operators and actions   *)
(* above.  The DedupIndex and the DataValidator of a run are locals of the *)
(* function and are kept in run.                                           *)
(* ======================================================================= *)

\* FilterConfig(...) of the configuration file, with thresholds small
\* enough for the answers below (the defaults are 100, 200, 8000, 0.3,
\* 0.3 and 2).
PipelineFilterConfig == FilterConfig(4, 12, 40, 30, 30, 2)

\* DataValidator(config.get("validation", {})), with small thresholds.
PipelineValidatorConfig == ValidatorConfig(1, 50, 5, 40)

\* The converted records: three well-formed ones, the second a near
\* duplicate of the first; one whose answer is shorter than
\* min_answer_length; one with the roles out of order; one of two
\* messages.
GoodA == ChatRecord(Some(Chat(Rep("a", 12))), Some(<< "s" >>))

GoodA2 == ChatRecord(Some(Chat(Rep("a", 13))), Some(<< "s" >>))

GoodB == ChatRecord(Some(Chat(Rep("b", 12))), Some(<< "t" >>))

ShortAnswer == ChatRecord(Some(Chat(Rep("c", 10))), Some(<< "s" >>))

WrongRoles ==
    ChatRecord(Some(<< Message("user", << "q" >>), Message("system", SystemPrompt),
                       Message("assistant", Rep("d", 12)) >>), Some(<< "s" >>))

TwoMessages == ChatRecord(Some(SubSeq(Chat(Rep("e", 12)), 1, 2)), Some(<< "s" >>))

\* all_converted of a run.
ConvertedBatches ==
    { << >>,
      << ShortAnswer >>,
      << TwoMessages >>,
      << GoodA >>,
      << GoodA, GoodA >>,
      << GoodA, GoodA2, GoodB >>,
      << GoodA, ShortAnswer, GoodB >>,
      << WrongRoles >>,
      << GoodB, ShortAnswer, WrongRoles >> }

\* train.jsonl of the configured training directory before the run: no
\* file; one record; two records; a record and a blank line.
PipelineTrainFiles ==
    { None,
      Some(<< JsonLine(GoodA) >>),
      Some(<< JsonLine(GoodA), JsonLine(ShortAnswer) >>),
      Some(<< JsonLine(GoodB), BlankLine >>) }

\* record.get("messages", [])
MessagesOf(record) == IF IsNone(record.messages) THEN << >> ELSE record.messages[1]

\* messages[2].get("content", "")
AnswerOf(record) == MessagesOf(record)[3].content

\* A line of train.jsonl as json.loads(line) of load_existing sees it: a
\* blank line is not JSON.
LoadedLine(line) ==
    IF line.blank THEN BadLine
    ELSE ChatLine([k \in 1..Len(MessagesOf(line.rec)) |->
                       MessagesOf(line.rec)[k].content])

\* The training directory as load_existing reads it.
DirForDedup(file) ==
    [train |-> IF IsNone(file) THEN None
               ELSE Some([k \in 1..Len(file[1]) |-> LoadedLine(file[1][k])]),
     validation |-> None]

\* The training directory as _validate_against_existing reads it: blank
\* lines are skipped.
DirForValidator(file) ==
    [train |-> IF IsNone(file) THEN None
               ELSE LET NotBlank(line) == ~line.blank
                        lines == SelectSeq(file[1], NotBlank)
                    IN  Some([k \in 1..Len(lines) |-> LoadedLine(lines[k])]),
     validation |-> None]

\* The loop of step 3, were every record of three messages kept.
Filtered_KeepsRejected(records, config) ==
    LET Keeps(record) == Len(MessagesOf(record)) >= 3
    IN  SelectSeq(records, Keeps)

\* The loop of step 3: the records of at least three messages whose
\* assistant content passes
\* filter_record(content, filter_config, min_length=min_answer_length).
Filtered(records, config) ==
    LET Keeps(record) ==
            /\ Len(MessagesOf(record)) >= 3
            /\ FilterRecord(AnswerOf(record), config,
                            Some(config.min_answer_length))[1]
    IN  SelectSeq(records, Keeps)

\* filter_rejected after the loop of step 3: the records of at least three
\* messages whose assistant content filter_record rejected.
FilterRejected(records, config) ==
    LET Rejects(record) ==
            /\ Len(MessagesOf(record)) >= 3
            /\ ~FilterRecord(AnswerOf(record), config,
                             Some(config.min_answer_length))[1]
    IN  Len(SelectSeq(records, Rejects))

\* dedup_stats = {"exact": 0, "near": 0, "unique": 0}
NoDedupStats == [exact |-> 0, near |-> 0, unique |-> 0]

\* The loop of step 4 from record i on: a record that is_duplicate reports
\* is counted under its reason, any other is added to the index and kept.
RECURSIVE UniqueLoop(_, _, _)
UniqueLoop(records, i, acc) ==
    IF i > Len(records) THEN acc
    ELSE IF Len(MessagesOf(records[i])) < 3 THEN UniqueLoop(records, i + 1, acc)
    ELSE
      LET content == AnswerOf(records[i])
          verdict == IsDuplicate(acc.index, content)
      IN  IF verdict[1]
          THEN UniqueLoop(records, i + 1,
                          [acc EXCEPT !.stats[verdict[2]] = @ + 1])
          ELSE UniqueLoop(records, i + 1,
                          [acc EXCEPT !.index = AddToIndex(@, content, None),
                                      !.unique = Append(@, records[i]),
                                      !.stats.unique = @ + 1])

\* The call of run_pipeline: its arguments, the converted records, and the
\* locals not yet assigned.
RunArgs(skip_validation, auto_merge, dry_run, all_converted) ==
    [pc |-> "convert",
     skip_validation |-> skip_validation,
     auto_merge |-> auto_merge,
     dry_run |-> dry_run,
     all_converted |-> all_converted,
     filtered |-> << >>,
     filter_rejected |-> 0,
     dedup |-> EmptyIndex,
     unique |-> << >>,
     dedup_stats |-> NoDedupStats,
     validation_result |-> None,
     version |-> None,
     returned |-> "",
     raised |-> ""]

\* return None, return validation_result
Return(r, value) == [r EXCEPT !.pc = "returned", !.returned = value]

\* An exception that run_pipeline does not catch.
Raise(r, exception) == [r EXCEPT !.pc = "raised", !.raised = exception]

\* The test after validation, were a failed validation let through.
ValidationBlocks_Never(validation_result, skip_validation) == FALSE

\* if not validation_result.passed and not skip_validation
ValidationBlocks(validation_result, skip_validation) ==
    ~validation_result.passed /\ ~skip_validation

(* --------------------------- steps of the run -------------------------- *)

\* Step 2, after the conversion: return None when nothing was converted.
Convert ==
    /\ run.pc = "convert"
    /\ run' = IF Len(run.all_converted) = 0 THEN Return(run, "None")
              ELSE [run EXCEPT !.pc = "filter"]
    /\ UNCHANGED << versioningVars, processingVars >>

\* Step 3: the quality filter; return None when no record passed.
QualityFilter ==
    LET filtered == Filtered(run.all_converted, PipelineFilterConfig)
        after == [run EXCEPT !.filtered = filtered,
                             !.filter_rejected =
                                 FilterRejected(run.all_converted,
                                                PipelineFilterConfig)]
    IN  /\ run.pc = "filter"
        /\ run' = IF Len(filtered) = 0 THEN Return(after, "None")
                  ELSE [after EXCEPT !.pc = "dedup"]
        /\ UNCHANGED << versioningVars, processingVars >>

\* Step 4: a new DedupIndex, load_existing when the training directory is
\* configured, then the loop over the filtered records; return None when
\* all were duplicates.
Deduplicate ==
    LET start == [index |-> EmptyIndex, loaded |-> 0, status |-> "ok",
                  admitted |-> {}]
        loaded == IF trainingConfigured
                  THEN LoadLoop(LinesOf(DirForDedup(trainFile).train), 1, start)
                  ELSE start
        end == UniqueLoop(run.filtered, 1,
                          [index |-> loaded.index, unique |-> << >>,
                           stats |-> NoDedupStats])
        after == [run EXCEPT !.dedup = end.index, !.unique = end.unique,
                             !.dedup_stats = end.stats]
    IN  /\ run.pc = "dedup"
        /\ run' = IF loaded.status # "ok" THEN Raise(run, loaded.status)
                  ELSE IF Len(end.unique) = 0 THEN Return(after, "None")
                  ELSE [after EXCEPT !.pc = "validate"]
        /\ UNCHANGED << versioningVars, processingVars >>

\* Step 5 and the head of step 6: validate_all(unique, existing_path =
\* training_dir); return the result when validation failed and
\* skip_validation is not set, and when dry_run is set.
Validate ==
    LET existing == IF trainingConfigured THEN Some(DirForValidator(trainFile))
                    ELSE None
        end == ValidateAll(run.unique, PipelineValidatorConfig, existing)
        after == [run EXCEPT !.validation_result = end.out]
    IN  /\ run.pc = "validate"
        /\ run' = IF end.status # "ok" THEN Raise(run, end.status)
                  ELSE IF ValidationBlocks(end.out[1], run.skip_validation)
                  THEN Return(after, "validation_result")
                  ELSE IF run.dry_run THEN Return(after, "validation_result")
                  ELSE [after EXCEPT !.pc = "open"]
        /\ UNCHANGED << versioningVars, processingVars >>

\* Step 6: vm = VersionManager(base_dir, training_data_dir = training_dir)
OpenStore ==
    /\ run.pc = "open"
    /\ Reopen
    /\ run' = [run EXCEPT !.pc = "snapshot"]

\* Step 6: version = vm.create_snapshot(unique, ...)
Snapshot ==
    /\ run.pc = "snapshot"
    /\ create_snapshot(run.unique)
    /\ run' = IF run.auto_merge
              THEN [run EXCEPT !.pc = "merge", !.version = result'.version]
              ELSE Return([run EXCEPT !.version = result'.version],
                          "validation_result")

\* Step 7: vm.merge_to_training(version) when auto_merge is set.
Merge ==
    /\ run.pc = "merge"
    /\ merge_to_training(run.version)
    /\ run' = IF result'.status = "ok" THEN Return(run, "validation_result")
              ELSE Raise(run, "ValueError")

\* run_pipeline on a machine where no VersionManager has been constructed
\* yet: the training directory is configured or not, and train.jsonl is
\* one of the files above.
InitPipeline ==
    /\ manifest = EmptyManifest
    /\ diskManifest = None
    /\ versionsDirExists = FALSE
    /\ versionFiles = EmptyFiles
    /\ trainingConfigured \in BOOLEAN
    /\ trainFile \in (IF trainingConfigured THEN PipelineTrainFiles ELSE { None })
    /\ backups = EmptyFiles
    /\ result = NoResult
    /\ nCreates = 0
    /\ nMerges = 0
    /\ lastMoved = None
    /\ deletedHighest = FALSE
    /\ ProcessingIdle
    /\ run \in { RunArgs(skip_validation, auto_merge, dry_run, all_converted) :
                   skip_validation \in BOOLEAN, auto_merge \in BOOLEAN,
                   dry_run \in BOOLEAN, all_converted \in ConvertedBatches }

NextPipeline ==
    \/ Convert
    \/ QualityFilter
    \/ Deduplicate
    \/ Validate
    \/ OpenStore
    \/ Snapshot
    \/ Merge

SpecPipeline == InitPipeline /\ [][NextPipeline]_vars

(* ------------------------- claims on run_pipeline ---------------------- *)

\* The run has a validation result, and it passed.
ValidationPassed ==
    ~IsNone(run.validation_result) /\ run.validation_result[1].passed

\* The step is a call of the named operation of the store.
Calls(op) == result'.op = op /\ result' # result

\* C20: in run_pipeline, create_snapshot is called only when validation
\* passed or skip_validation is set; merge_to_training is called only when
\* in addition auto_merge is set; and in a run with dry_run set no step
\* calls the store or changes the version store, train.jsonl or its
\* backups.
C20_SnapshotAndMergeAreGated ==
    [][ /\ Calls("create_snapshot") =>
               (ValidationPassed \/ run.skip_validation)
        /\ Calls("merge_to_training") =>
               /\ ValidationPassed \/ run.skip_validation
               /\ run.auto_merge
        /\ run.dry_run => UNCHANGED << storeVars, trainVars, result >>
      ]_vars

\* A run with skip_validation and auto_merge whose records failed
\* validation has created a snapshot and merged it into train.jsonl.
C20_Witness ==
    /\ run.pc = "returned"
    /\ run.skip_validation /\ run.auto_merge /\ ~run.dry_run
    /\ ~IsNone(run.validation_result) /\ ~run.validation_result[1].passed
    /\ result.op = "merge_to_training" /\ result.status = "ok"
    /\ ~IsNone(run.version) /\ HasDirectory(run.version[1])
    /\ TrainRecords(trainFile) # << >>

\* The record has an assistant content on which no check of the quality
\* filter fails, the length check being made against min_answer_length.
PassesQuality(record) ==
    /\ Len(MessagesOf(record)) >= 3
    /\ \A i \in 1..Len(CheckOrder) :
           ~CheckFails(CheckOrder[i], AnswerOf(record), PipelineFilterConfig,
                       Some(PipelineFilterConfig.min_answer_length))

\* Two texts are equal, or their shingle sets are similar enough for the
\* near-duplicate index.
SameOrNear(a, b) == a = b \/ Collides(MakeMinhash(a), MakeMinhash(b))

\* The assistant contents of the records of train.jsonl.
CorpusAnswers ==
    IF ~trainingConfigured THEN {}
    ELSE LET recs == TrainRecords(trainFile)
         IN  { AnswerOf(recs[i]) :
                 i \in { j \in 1..Len(recs) : Len(MessagesOf(recs[j])) >= 3 } }

\* The records of the batch, from record i on, that pass the quality
\* filter and are no duplicate of a text of the corpus or of a record
\* kept before them, in input order.
RECURSIVE QualifiedUnique(_, _, _)
QualifiedUnique(records, i, seen) ==
    IF i > Len(records) THEN << >>
    ELSE IF PassesQuality(records[i])
            /\ \A text \in seen : ~SameOrNear(text, AnswerOf(records[i]))
    THEN << records[i] >>
         \o QualifiedUnique(records, i + 1, seen \cup { AnswerOf(records[i]) })
    ELSE QualifiedUnique(records, i + 1, seen)

\* The scenario: a corpus of two records and a batch of three, of which
\* one has the content of a corpus record, one is 10 characters long,
\* which is below min_answer_length, and the third passes the filter and
\* resembles no corpus record.
CorpusScenario ==
    /\ trainingConfigured
    /\ Len(TrainRecords(trainFile)) = 2
    /\ Len(run.all_converted) = 3
    /\ \A i \in 1..3 : Len(MessagesOf(run.all_converted[i])) >= 3
    /\ \E i \in 1..3, j \in 1..3, k \in 1..3 :
         /\ i # j /\ j # k /\ i # k
         /\ PassesQuality(run.all_converted[i])
         /\ AnswerOf(run.all_converted[i]) \in CorpusAnswers
         /\ Len(AnswerOf(run.all_converted[j])) = 10
         /\ 10 < PipelineFilterConfig.min_answer_length
         /\ PassesQuality(run.all_converted[k])
         /\ \A text \in CorpusAnswers :
                ~SameOrNear(text, AnswerOf(run.all_converted[k]))

\* The last entry of the version list.
LastEntry == manifest.versions[Len(manifest.versions)]

\* C21: when run_pipeline has created a snapshot, the records of the
\* snapshot are the batch records that passed the quality filter and were
\* no duplicate, in input order, and record_count is their number; in the
\* scenario of a 2-record corpus and a 3-record batch with one exact
\* duplicate and one 10-character answer there is 1 quality rejection,
\* 1 exact duplicate, and 1 record in a snapshot with record_count 1.
C21_SnapshotHoldsQualifiedUniqueRecords ==
    result.op = "create_snapshot" /\ run.pc \in { "merge", "returned" } =>
        LET expected == QualifiedUnique(run.all_converted, 1, CorpusAnswers)
        IN  /\ ~IsNone(run.version)
            /\ StoredRecords(run.version[1]) = expected
            /\ LastEntry.version = run.version[1]
            /\ LastEntry.record_count = Len(expected)
            /\ CorpusScenario =>
                   /\ run.filter_rejected = 1
                   /\ run.dedup_stats.exact = 1
                   /\ run.dedup_stats.near = 0
                   /\ Len(StoredRecords(run.version[1])) = 1
                   /\ LastEntry.record_count = 1

\* The scenario has run: one record of a batch of three is in the new
\* version.
C21_Witness ==
    /\ result.op = "create_snapshot" /\ run.pc \in { "merge", "returned" }
    /\ CorpusScenario
    /\ StoredRecords(run.version[1]) = << GoodB >>
    /\ run.filter_rejected = 1 /\ run.dedup_stats.exact = 1

(* ------------------- further claims on the version store --------------- *)

\* The numeric suffix of the i-th entry of the version list.
SuffixAt(i) == VersionNumber(manifest.versions[i].version)

\* The numeric suffixes of the version list increase strictly in list
\* order.
SuffixesIncrease ==
    \A i \in 1..Len(manifest.versions), j \in 1..Len(manifest.versions) :
        i < j => SuffixAt(i) < SuffixAt(j)

\* The id that create_snapshot returns in this step is "v" and three
\* digits, its number is 1 on an empty version list and the largest suffix
\* of the list plus one otherwise, and it is the id of the new last entry.
AllocatesLargestPlusOne ==
    LET suffixes == { SuffixAt(i) : i \in 1..Len(manifest.versions) }
        largest == CHOOSE n \in suffixes : \A k \in suffixes : k <= n
        id == result'.version[1]
    IN  /\ Len(id) = 4 /\ id[1] = "v"
        /\ \A k \in 2..4 : \E d \in 1..10 : id[k] = DigitChars[d]
        /\ VersionNumber(id) = IF suffixes = {} THEN 1 ELSE largest + 1
        /\ manifest'.versions[Len(manifest'.versions)].version = id

\* C22: in every reachable state the numeric suffixes of the version list
\* increase strictly in list order, and every create_snapshot allocates the
\* id numbered one above the largest suffix of the list, padded to three
\* digits, or v001 on an empty list.
C22_SuffixesIncreaseAndNextIsLargestPlusOne ==
    /\ []SuffixesIncrease
    /\ [][Calls("create_snapshot") => AllocatesLargestPlusOne]_vars

\* A second snapshot was created on top of the first: the list holds the
\* suffixes 1 and 2.
C22_Witness ==
    /\ result.op = "create_snapshot"
    /\ result.version = Some(<< "v", "0", "0", "2" >>)
    /\ Len(manifest.versions) = 2
    /\ SuffixAt(1) = 1 /\ SuffixAt(2) = 2

\* The step appends one entry to the version list: its id is the id
\* returned, its parent_version is `current` of before the call, its
\* record_count is the number of records written for the id; and `current`
\* becomes the id.
AppendsOneEntry ==
    LET id == result'.version[1]
        entry == manifest'.versions[Len(manifest'.versions)]
    IN  /\ Len(manifest'.versions) = Len(manifest.versions) + 1
        /\ SubSeq(manifest'.versions, 1, Len(manifest.versions)) = manifest.versions
        /\ entry.version = id
        /\ entry.parent_version = manifest.current
        /\ id \in DOMAIN versionFiles'
        /\ entry.record_count = Len(RecsOf(versionFiles'[id].records))
        /\ manifest'.current = Some(id)

\* C23: create_snapshot appends exactly one entry to the version list, with
\* parent_version the `current` of before the call and record_count the
\* size of the batch, and sets `current` to the new id; a step of any other
\* operation does not lengthen the version list.
C23_OnlyCreateGrowsHistoryByOneEntry ==
    [][ /\ Calls("create_snapshot") => AppendsOneEntry
        /\ Len(manifest'.versions) > Len(manifest.versions) =>
               Calls("create_snapshot")
      ]_vars

\* A snapshot of two records was created on top of the first version: the
\* first entry has no parent, the second has the first as its parent.
C23_Witness ==
    /\ result.op = "create_snapshot"
    /\ Len(manifest.versions) = 2
    /\ manifest.versions[2].record_count = 2
    /\ manifest.versions[1].parent_version = None
    /\ manifest.versions[2].parent_version = Some(manifest.versions[1].version)
    /\ manifest.current = Some(manifest.versions[2].version)

(* ======================================================================= *)
(* The version store at the grain of its file operations                   *)
(* (src/pipeline/versioning.py): create_snapshot makes the version         *)
(* directory, writes records.jsonl, writes version_info.json, and only     *)
(* then appends to self.manifest and saves manifest.json.  Each of the     *)
(* three files is written by open(path, "w"), which creates the file or    *)
(* cuts it to 0 bytes, and by writes that stay in the buffer of the file   *)
(* object until the `with` block closes it (the batches here are far       *)
(* below the buffer's 8192 bytes); the close writes the buffer from the    *)
(* object's own position 0 over whatever the file holds by then.  How many *)
(* bytes a document takes decides what such a close leaves, so the entries *)
(* written here carry every field of VersionInfo: the description and the  *)
(* sources of the call, and the created_at read from the clock.  A         *)
(* process can die between any two of these steps, and several             *)
(* VersionManager objects can be open on one base_dir: each has its own    *)
(* self.manifest, and all share manifest.json and the version              *)
(* directories.  Here `writers` holds the objects, and diskManifest,       *)
(* versionsDirExists and versionFiles the directory; a version directory   *)
(* maps the names of the files in it to their contents.                    *)
(* ======================================================================= *)

\* The create_snapshot calls the VersionManager objects of one directory
\* begin, all together.
MaxWriterCreates == 3

\* The number of times the process of a VersionManager dies.
MaxCrashes == 1

\* The batches given to create_snapshot by the writers: one record, and
\* ten records (whose record_count takes two digits).
WriterBatches ==
    { << Record("test_0", 3) >>,
      [i \in 1..10 |-> Record("test_0", 3)] }

\* The arguments of the create_snapshot calls of the writers: a batch
\* alone, as the tests pass it, and a batch with a description and the
\* names of its sources, as run_pipeline passes it.
WriterCalls ==
    { [records |-> records, description |-> EmptyStr, sources |-> None] :
        records \in WriterBatches }
    \cup
    { [records |-> << Record("test_0", 3) >>,
       description |-> << "r", "u", "n", " ", "7" >>,
       sources |-> Some(<< << "n", "i", "s", "t" >> >>)] }

\* datetime.now(timezone.utc): the microseconds of the readings of the
\* clock, on a whole second and off it.
Clock == { 0, 250000 }

\* A VersionManager that is not constructed, or whose process died: its
\* fields are lost.  begun and crashes count its calls and deaths;
\* returned lists the ids create_snapshot returned to its caller, each
\* with the records the caller passed; loaded is the manifest its
\* constructor read, and raised the exception its constructor ended in;
\* records, description and sources are the arguments of the call under
\* way and info its local variable.
ClosedWriter ==
    [pc |-> "closed", manifest |-> EmptyManifest, loaded |-> EmptyManifest,
     records |-> << >>, description |-> EmptyStr, sources |-> None,
     info |-> None, version |-> None, returned |-> << >>,
     begun |-> 0, crashes |-> 0, raised |-> ""]

\* A version directory without files.
EmptyDir == [file \in {} |-> << >>]

(* ---------------- the bytes of the files ------------------------------- *)

\* The content of a file of n bytes that is not one JSON document: an
\* empty file, or a document followed by the rest of a longer one.
Unreadable(n) == [unreadable |-> TRUE, bytes |-> n]

\* json.load(f) returns on this content, and does not raise JSONDecodeError.
IsReadable(content) == "unreadable" \notin DOMAIN content

\* len(json.dumps(record, default=str) + "\n") for a record of the shape of
\* make_sample_records (src/tests/test_versioning.py): a source of six
\* characters and the first nmsgs of the system, user and assistant
\* messages.
RecordBytes(r) ==
    37 + (IF r.nmsgs >= 1 THEN 55 ELSE 0)
       + (IF r.nmsgs >= 2 THEN 44 ELSE 0)
       + (IF r.nmsgs >= 3 THEN 69 ELSE 0)

\* What is left of a line of records.jsonl whose first bytes were written
\* over, n bytes with the newline: the newline alone is an empty line, and
\* anything longer is the end of a JSON object, which json.loads rejects.
Fragment(n) == IF n = 1 THEN BlankLine ELSE [blank |-> FALSE, fragment |-> n]

\* json.loads accepts the line.
IsJsonLine(line) == ~line.blank /\ "rec" \in DOMAIN line

\* The bytes of one line of records.jsonl.
LineBytes(line) ==
    IF line.blank THEN 1
    ELSE IF IsJsonLine(line) THEN RecordBytes(line.rec)
    ELSE line.fragment

\* The bytes of records.jsonl.
RECURSIVE LinesBytes(_)
LinesBytes(lines) ==
    IF Len(lines) = 0 THEN 0
    ELSE LineBytes(Head(lines)) + LinesBytes(Tail(lines))

\* The lines of the file from byte n on.
RECURSIVE LinesFrom(_, _)
LinesFrom(lines, n) ==
    IF Len(lines) = 0 \/ n = 0 THEN lines
    ELSE IF n >= LineBytes(Head(lines))
         THEN LinesFrom(Tail(lines), n - LineBytes(Head(lines)))
         ELSE << Fragment(LineBytes(Head(lines)) - n) >> \o Tail(lines)

\* The close of records.jsonl: the buffered lines are written at position
\* 0 of the file; what the file holds beyond them stays.
FlushedLines(lines, buffered) ==
    buffered \o LinesFrom(lines, LinesBytes(buffered))

\* datetime.isoformat() of a time in UTC: YYYY-MM-DDTHH:MM:SS+00:00, with
\* the six digits of the microseconds after a point unless they are 0.
\* The text is kept as its length, the one thing of it that is read here.
Isoformat(microsecond) == [chars |-> IF microsecond = 0 THEN 25 ELSE 32]

\* The bytes json.dump writes for None or a string of letters, digits and
\* spaces: null, or the string in quotes.
OptionalBytes(o) == IF IsNone(o) THEN 4 ELSE Len(o[1]) + 2

\* The bytes json.dump(indent=2) writes for the items of a list of
\* strings whose bracket is indented by the given number of columns: each
\* item on a line of its own, two columns further in, and a comma after
\* each but the last.
RECURSIVE ItemsBytes(_, _)
ItemsBytes(list, indent) ==
    IF Len(list) = 0 THEN 0
    ELSE 1 + (indent + 2) + (Len(Head(list)) + 2)
         + (IF Len(list) > 1 THEN 1 ELSE 0)
         + ItemsBytes(Tail(list), indent)

\* The bytes json.dump(indent=2) writes for a list of strings: [] when it
\* is empty, and otherwise the brackets, the items, and the line of the
\* closing bracket.
ListBytes(list, indent) ==
    IF Len(list) = 0 THEN 2
    ELSE 1 + ItemsBytes(list, indent) + 1 + indent + 1

\* The bytes json.dump(indent=2) writes for info.__dict__ when its braces
\* are indented by the given number of columns: the braces, and for each
\* of the six fields a line with the indentation, the key in quotes, a
\* colon, a space and the value (a string in quotes), with a comma after
\* each but the last.
InfoBytes(info, indent) ==
    7 * indent + 111
        + (Len(info.version) + 2)
        + (info.created_at.chars + 2)
        + (Len(info.description) + 2)
        + Len(IntToStr(info.record_count))
        + ListBytes(info.sources, indent + 2)
        + OptionalBytes(info.parent_version)

\* The entries of the manifest as json.dump(indent=2) writes them: each
\* entry on lines of its own, four columns in, and a comma between two
\* entries.
RECURSIVE EntriesBytes(_)
EntriesBytes(versions) ==
    IF Len(versions) = 0 THEN 0
    ELSE 1 + 4 + InfoBytes(Head(versions), 4)
         + (IF Len(versions) > 1 THEN 1 ELSE 0)
         + EntriesBytes(Tail(versions))

\* len(json.dumps(self.manifest, indent=2)): the lines of "versions" and
\* of "current" between the braces.
ManifestBytes(m) ==
    33 + (IF Len(m.versions) = 0 THEN 2
          ELSE 1 + EntriesBytes(m.versions) + 4)
       + OptionalBytes(m.current)

\* The bytes of manifest.json.
ManifestFileBytes(content) ==
    IF IsReadable(content) THEN ManifestBytes(content) ELSE content.bytes

\* The bytes of version_info.json.
InfoFileBytes(content) ==
    IF IsReadable(content) THEN InfoBytes(content, 0) ELSE content.bytes

\* The close of a file that json.dump wrote one document of the given
\* number of bytes into, were the file cut to the document again.
Dumped_Whole(bytes, document, documentBytes) == document

\* The close of a file that json.dump wrote one document of the given
\* number of bytes into: the document is written at position 0 of the
\* file; a file that holds more bytes by then keeps the rest, and is no
\* JSON document.
Dumped(bytes, document, documentBytes) ==
    IF documentBytes >= bytes THEN document ELSE Unreadable(bytes)

(* ---------------- the steps of the objects ----------------------------- *)

\* self.manifest["versions"].append(info.__dict__)
\* self.manifest["current"] = version
Appended(m, info) ==
    [versions |-> Append(m.versions, info), current |-> Some(info.version)]

\* The state that the writers of the shared directory do not touch.
outsideShared == << manifest, trainingConfigured, trainFile, backups, result,
                    nCreates, nMerges, lastMoved, deletedHighest,
                    dedupVars, qf, vl, run >>

\* VersionManager(base_dir) in a new process: versions_dir.mkdir, then
\* _load_manifest, whose json.load raises JSONDecodeError on a
\* manifest.json that is empty or not one document; the exception leaves
\* the constructor and no object is made.
OpenWriter(w) ==
    /\ writers[w].pc = "closed"
    /\ versionsDirExists' = TRUE
    /\ writers' =
           IF IsNone(diskManifest) \/ IsReadable(diskManifest[1])
           THEN [writers EXCEPT ![w].pc = "ready",
                                ![w].manifest = LoadManifest(diskManifest),
                                ![w].loaded = LoadManifest(diskManifest),
                                ![w].raised = ""]
           ELSE [writers EXCEPT ![w].raised = "JSONDecodeError"]
    /\ UNCHANGED << diskManifest, versionFiles >>
    /\ UNCHANGED outsideShared

\* The number of create_snapshot calls begun on the directory.
CallsBegun ==
    Cardinality(UNION { { << w, k >> : k \in 1..writers[w].begun } :
                            w \in DOMAIN writers })

\* create_snapshot(records, description, sources), to the creation of the
\* version directory:
\* version = self._next_version(); version_dir.mkdir(exist_ok=True)
AllocateVersion(w, call) ==
    LET version == NextVersion(writers[w].manifest)
    IN  /\ writers[w].pc = "ready"
        /\ CallsBegun < MaxWriterCreates
        /\ versionsDirExists' = TRUE
        /\ versionFiles' = IF version \in DOMAIN versionFiles THEN versionFiles
                           ELSE (version :> EmptyDir) @@ versionFiles
        /\ writers' = [writers EXCEPT ![w].pc = "records",
                                      ![w].records = call.records,
                                      ![w].description = call.description,
                                      ![w].sources = call.sources,
                                      ![w].info = None,
                                      ![w].version = Some(version),
                                      ![w].begun = @ + 1]
        /\ UNCHANGED diskManifest
        /\ UNCHANGED outsideShared

\* open(records_file, "w"): records.jsonl is there and holds nothing.
OpenRecords(w) ==
    LET version == writers[w].version[1]
    IN  /\ writers[w].pc = "records"
        /\ versionFiles' = [versionFiles EXCEPT ![version] =
                               Put(@, "records", << >>)]
        /\ writers' = [writers EXCEPT ![w].pc = "recordsOpen"]
        /\ UNCHANGED << diskManifest, versionsDirExists >>
        /\ UNCHANGED outsideShared

\* The loop of f.write(json.dumps(record, default=str) + "\n") and the end
\* of its `with` block.
WriteRecords(w) ==
    LET version == writers[w].version[1]
    IN  /\ writers[w].pc = "recordsOpen"
        /\ versionFiles' = [versionFiles EXCEPT ![version] =
                               Put(@, "records",
                                   FlushedLines(@.records,
                                                WriteJsonl(writers[w].records)))]
        /\ writers' = [writers EXCEPT ![w].pc = "info"]
        /\ UNCHANGED << diskManifest, versionsDirExists >>
        /\ UNCHANGED outsideShared

\* sources or []
SourcesOrEmpty(sources) == IF IsNone(sources) THEN << >> ELSE sources[1]

\* VersionInfo(version, created_at, description, record_count, sources,
\* parent_version).__dict__
StampedInfo(version, created_at, description, records, sources, current) ==
    [version |-> version, created_at |-> created_at,
     description |-> description, record_count |-> Len(records),
     sources |-> SourcesOrEmpty(sources), parent_version |-> current]

\* info = VersionInfo(...), whose created_at is the reading of the clock;
\* open(info_file, "w"): version_info.json is there and holds nothing.
OpenInfo(w, microsecond) ==
    LET version == writers[w].version[1]
        info == StampedInfo(version, Isoformat(microsecond),
                            writers[w].description, writers[w].records,
                            writers[w].sources, writers[w].manifest.current)
    IN  /\ writers[w].pc = "info"
        /\ versionFiles' = [versionFiles EXCEPT ![version] =
                               Put(@, "info", Unreadable(0))]
        /\ writers' = [writers EXCEPT ![w].pc = "infoOpen",
                                      ![w].info = Some(info)]
        /\ UNCHANGED << diskManifest, versionsDirExists >>
        /\ UNCHANGED outsideShared

\* json.dump(info.__dict__, f, indent=2) and the end of its `with` block.
WriteInfo(w) ==
    LET version == writers[w].version[1]
        info == writers[w].info[1]
    IN  /\ writers[w].pc = "infoOpen"
        /\ versionFiles' = [versionFiles EXCEPT ![version] =
                               Put(@, "info",
                                   Dumped(InfoFileBytes(@.info), info,
                                          InfoBytes(info, 0)))]
        /\ writers' = [writers EXCEPT ![w].pc = "manifest"]
        /\ UNCHANGED << diskManifest, versionsDirExists >>
        /\ UNCHANGED outsideShared

\* The manifest in memory is appended to, and _save_manifest opens
\* manifest.json: the file is there and holds nothing.
OpenManifest(w) ==
    /\ writers[w].pc = "manifest"
    /\ diskManifest' = Some(Unreadable(0))
    /\ writers' = [writers EXCEPT
                     ![w].pc = "manifestOpen",
                     ![w].manifest = Appended(@, writers[w].info[1])]
    /\ UNCHANGED << versionsDirExists, versionFiles >>
    /\ UNCHANGED outsideShared

\* json.dump(self.manifest, f, indent=2) and the end of the `with` block
\* of _save_manifest, after which create_snapshot returns the version.
SaveSnapshot(w) ==
    /\ writers[w].pc = "manifestOpen"
    /\ diskManifest' = Some(Dumped(ManifestFileBytes(diskManifest[1]),
                                   writers[w].manifest,
                                   ManifestBytes(writers[w].manifest)))
    /\ writers' = [writers EXCEPT
                     ![w].pc = "ready",
                     ![w].returned =
                         Append(@, [version |-> writers[w].version[1],
                                    records |-> writers[w].records])]
    /\ UNCHANGED << versionsDirExists, versionFiles >>
    /\ UNCHANGED outsideShared

\* The process of the VersionManager dies: its fields and the buffers of
\* its open files are lost, the files stay as they are.
Crash(w) ==
    /\ writers[w].pc # "closed"
    /\ writers[w].crashes < MaxCrashes
    /\ writers' = [writers EXCEPT ![w] = [ClosedWriter EXCEPT
                                            !.returned = writers[w].returned,
                                            !.begun = writers[w].begun,
                                            !.crashes = writers[w].crashes + 1]]
    /\ UNCHANGED << diskManifest, versionsDirExists, versionFiles >>
    /\ UNCHANGED outsideShared

\* A fresh base_dir and the given VersionManager objects, none constructed.
InitShared(W) ==
    /\ StoreIdle
    /\ DedupIdle /\ qf = NoFilterCall /\ vl = NoValidation /\ run = NoRun
    /\ writers = [w \in W |-> ClosedWriter]

\* One VersionManager at a time whose process can die and be restarted.
InitCrash == InitShared({ "w1" })

NextCrash ==
    \/ \E w \in DOMAIN writers : OpenWriter(w)
    \/ \E w \in DOMAIN writers, call \in WriterCalls :
           AllocateVersion(w, call)
    \/ \E w \in DOMAIN writers : OpenRecords(w)
    \/ \E w \in DOMAIN writers : WriteRecords(w)
    \/ \E w \in DOMAIN writers, microsecond \in Clock :
           OpenInfo(w, microsecond)
    \/ \E w \in DOMAIN writers : WriteInfo(w)
    \/ \E w \in DOMAIN writers : OpenManifest(w)
    \/ \E w \in DOMAIN writers : SaveSnapshot(w)
    \/ \E w \in DOMAIN writers : Crash(w)

SpecCrash == InitCrash /\ [][NextCrash]_vars

\* Two VersionManager objects on one base_dir, in two processes that run
\* to the end of their calls.
InitWriters == InitShared({ "w1", "w2" })

NextWriters ==
    \/ \E w \in DOMAIN writers : OpenWriter(w)
    \/ \E w \in DOMAIN writers, call \in WriterCalls :
           AllocateVersion(w, call)
    \/ \E w \in DOMAIN writers : OpenRecords(w)
    \/ \E w \in DOMAIN writers : WriteRecords(w)
    \/ \E w \in DOMAIN writers, microsecond \in Clock :
           OpenInfo(w, microsecond)
    \/ \E w \in DOMAIN writers : WriteInfo(w)
    \/ \E w \in DOMAIN writers : OpenManifest(w)
    \/ \E w \in DOMAIN writers : SaveSnapshot(w)

SpecWriters == InitWriters /\ [][NextWriters]_vars

(* ---------------- claims on crashes and on shared directories ---------- *)

\* The writer is inside create_snapshot.
Creating(w) ==
    writers[w].pc \in { "records", "recordsOpen", "info", "infoOpen",
                        "manifest", "manifestOpen" }

\* The ids that manifest.json lists: none when the file is absent or
\* cannot be read.
ListedOnDisk ==
    IF IsNone(diskManifest) \/ ~IsReadable(diskManifest[1]) THEN {}
    ELSE ExistingIds(diskManifest[1])

\* The orphans: the version directories whose record file was written,
\* that have no entry in manifest.json, and that are not the directory of
\* a create_snapshot in progress.
Orphans ==
    { id \in DOMAIN versionFiles :
        /\ "records" \in DOMAIN versionFiles[id]
        /\ versionFiles[id].records # << >>
        /\ id \notin ListedOnDisk
        /\ \A w \in DOMAIN writers :
               ~(Creating(w) /\ writers[w].version = Some(id)) }

\* C24: after create_snapshot was interrupted between the writing of the
\* record file and the saving of the manifest, no later create_snapshot
\* allocates the id of the orphaned directory, and no step writes into its
\* record file.
C24_OrphansAreNeverReused ==
    [][ \A id \in Orphans :
          /\ \A w \in DOMAIN writers :
                 ~(Creating(w)' /\ writers'[w].version = Some(id))
          /\ versionFiles'[id].records = versionFiles[id].records
      ]_vars

\* The writer is inside create_snapshot and has not yet appended its entry
\* to the manifest it holds in memory.
BeforeAppend(w) == Creating(w) /\ writers[w].pc # "manifestOpen"

\* Two writers that are both inside create_snapshot, before their
\* appends, with equal manifests in memory have allocated the same id.
SameManifestSameId ==
    \A w \in DOMAIN writers, u \in DOMAIN writers :
        (BeforeAppend(w) /\ BeforeAppend(u)
         /\ writers[w].manifest = writers[u].manifest)
            => writers[w].version = writers[u].version

\* The objects were all constructed on the same content of manifest.json,
\* and each has called create_snapshot at most once.
LoadedTheSame ==
    \A w \in DOMAIN writers, u \in DOMAIN writers :
        /\ writers[w].pc # "closed"
        /\ writers[w].begun <= 1
        /\ writers[w].loaded = writers[u].loaded

\* The step ends the create_snapshot of writer w.
Returns(w) == writers[w].pc = "manifestOpen" /\ writers'[w].pc = "ready"

\* When the step ends a create_snapshot of one of two writers that loaded
\* the same manifest, manifest.json holds the list that writer had in
\* memory with the new entry after it, whatever it held before.
SaveKeepsOnlyOwnList ==
    \A w \in DOMAIN writers :
        (LoadedTheSame /\ Returns(w)) =>
            diskManifest' = Some(writers[w].manifest)

NoMergedManifest ==
    (LoadedTheSame /\ ~IsNone(diskManifest) /\ IsReadable(diskManifest[1])) =>
        \A w \in DOMAIN writers :
            Len(diskManifest[1].versions) <= Len(writers[w].loaded.versions) + 1

\* When the step ends a create_snapshot of one of two writers that loaded
\* the same manifest, manifest.json holds that writer's list with its new
\* entry if the file held no more bytes than this document; a file that
\* held more bytes, which the save of the other writer wrote in between,
\* keeps its length and cannot be read.
SaveOverwritesFromTheStart ==
    \A w \in DOMAIN writers :
        (LoadedTheSame /\ Returns(w)) =>
            LET held == ManifestFileBytes(diskManifest[1])
                own == ManifestBytes(writers[w].manifest)
            IN  /\ held <= own => diskManifest' = Some(writers[w].manifest)
                /\ held > own =>
                       /\ diskManifest' = Some(Unreadable(held))
                       /\ \E u \in DOMAIN writers \ { w } :
                              /\ Len(writers[u].returned) = 1
                              /\ held = ManifestBytes(writers[u].manifest)

HoldsRecordsOnly(name) ==
    /\ name \in DOMAIN versionFiles
    /\ "records" \in DOMAIN versionFiles[name]
    /\ \A i \in 1..Len(versionFiles[name].records) :
           IsJsonLine(versionFiles[name].records[i])

InBothIndices(text) ==
    /\ Fingerprint(text) \in idx.exact_hashes
    /\ \E key \in DOMAIN idx.minhashes :
           /\ key \in DOMAIN idx.lsh
           /\ idx.minhashes[key] = << MakeMinhash(text), Len(text) >>

\* C26: on an index that went through _add_to_index and load_existing
\* calls only, every text inserted is in both indices: no insertion found
\* its key already present in the near-duplicate index.
C26_EveryInsertedTextIsInBothIndices ==
    ~dhist.loaded => \A text \in dhist.admitted : InBothIndices(text)

\* The number of records of the batch whose content is empty or missing.
EmptyRecords(batch) ==
    Cardinality({ i \in 1..Len(batch) : batch[i].text = EmptyStr })

\* The entries of the near-duplicate index of the next state under keys
\* that the index does not have now.
NewMinhashes ==
    { idx'.minhashes[key] : key \in DOMAIN idx'.minhashes \ DOMAIN idx.minhashes }

\* C27: deduplicate_batch returns an order-preserving subsequence of its
\* input, as long as stats.unique says; the texts it adds to the two
\* indices are the texts it kept and no others; exact_dupes + near_dupes +
\* unique + the number of records with empty content is total_input, the
\* length of the input; and no record with empty content is kept.
C27_BatchConservesCounts ==
    [][(dres'.op = "deduplicate_batch")
          => LET batch == dres'.arg
                 kept == dres'.kept
                 stats == dres'.stats
                 keptTexts == { kept[j].text : j \in 1..Len(kept) }
             IN  /\ Len(kept) = stats.unique
                 /\ \A j \in 1..Len(kept) :
                        /\ kept[j].n \in 1..Len(batch)
                        /\ batch[kept[j].n] = kept[j]
                        /\ kept[j].text # EmptyStr
                        /\ \A i \in 1..(j - 1) : kept[i].n < kept[j].n
                 /\ stats.total_input = Len(batch)
                 /\ stats.exact_dupes + stats.near_dupes + stats.unique
                        + EmptyRecords(batch) = stats.total_input
                 /\ idx'.exact_hashes =
                        idx.exact_hashes \cup { Fingerprint(t) : t \in keptTexts }
                 /\ DOMAIN idx.lsh \subseteq DOMAIN idx'.lsh
                 /\ DOMAIN idx'.lsh \ DOMAIN idx.lsh
                        = DOMAIN idx'.minhashes \ DOMAIN idx.minhashes
                 /\ NewMinhashes = { << MakeMinhash(t), Len(t) >> : t \in keptTexts }
                 /\ idx'.counter = idx.counter + Len(kept)]_vars

\* A batch of a record without content and a record with content was
\* given to an index that held another text: the second record was kept,
\* the first was not counted.
C27_Witness ==
    /\ dres.op = "deduplicate_batch"
    /\ dres.arg = BatchOf(<< EmptyStr, Rep("b", 6) >>)
    /\ dres.kept = << BatchRecord(Rep("b", 6), 2) >>
    /\ dres.stats = [total_input |-> 2, exact_dupes |-> 0, near_dupes |-> 0,
                     unique |-> 1]
    /\ idx.exact_hashes = { Fingerprint(Rep("a", 6)), Fingerprint(Rep("b", 6)) }

(* ----------------------- claims on repeated merges --------------------- *)

\* The step is a successful merge_to_training.
Merges == result'.op = "merge_to_training" /\ result'.status = "ok" /\ nMerges' # nMerges

\* The merge of the step appended the N records of the version to the
\* records of the destination: merging is not idempotent.
MergeAddsAgain ==
    LET v == result'.version[1]
    IN  /\ Len(StoredRecords(v)) > 0
        /\ TrainRecords(trainFile')
               = TrainRecords(trainFile) \o StoredRecords(v)

\* After the merge of the step the backup named with the version id holds
\* the destination's content of just before this merge, whatever an
\* earlier backup of that name held; no other backup changed.
BackupIsOfLastMerge ==
    LET v == result'.version[1]
    IN  /\ ~IsNone(trainFile)
        /\ DOMAIN backups' = DOMAIN backups \cup { v }
        /\ backups'[v] = trainFile[1]
        /\ \A n \in DOMAIN backups \ { v } : backups'[n] = backups[n]

\* C28 as stated: every successful merge_to_training of a version adds its
\* N records to the destination again, so that k merges onto E records
\* leave E + k*N, and after each merge the one backup file of that version
\* id holds the destination's content of just before that merge.
C28_EachMergeAddsAgainAndRewritesBackup ==
    [][Merges => (MergeAddsAgain /\ BackupIsOfLastMerge)]_vars

\* C28 as amended: every successful merge adds the N records again; after
\* a merge onto an existing destination file the one backup file of that
\* version id holds the file's content of just before that merge, an
\* earlier backup being overwritten; a merge into a directory without
\* train.jsonl writes no backup.
C28_EachMergeAddsAgainAndRewritesBackupOfExistingFile ==
    [][Merges => /\ MergeAddsAgain
                 /\ IF IsNone(trainFile) THEN backups' = backups
                    ELSE BackupIsOfLastMerge]_vars

\* A version was merged twice onto a destination of two records: the
\* destination holds the two records and the version's records twice, and
\* the backup holds what the destination held after the first merge, not
\* the two records the first backup held.
C28_Witness ==
    /\ result.op = "merge_to_training" /\ result.status = "ok"
    /\ nMerges = 2
    /\ LET v == result.version[1]
           N == Len(StoredRecords(v))
           train == TrainRecords(trainFile)
       IN  /\ N > 0
           /\ Len(train) = 2 + 2 * N
           /\ SubSeq(train, 3, 2 + N) = StoredRecords(v)
           /\ SubSeq(train, 3 + N, 2 + 2 * N) = StoredRecords(v)
           /\ DOMAIN backups = { v }
           /\ RecsOf(backups[v]) = SubSeq(train, 1, 2 + N)


\* The fingerprints listed in the index file.
FileHashes == { indexFile[1][i] : i \in 1..Len(indexFile[1]) }

\* The step is a call of load_index.
Restores == dres'.op = "load_index"

\* C29: load_index on an existing file replaces the exact-fingerprint set
\* of the index by the file's content instead of adding to it and leaves
\* the near-duplicate index (the LSH, its signatures and its key counter)
\* untouched; on a missing file it changes nothing of the index.  Hence a
\* fingerprint admitted before the restore and absent from the file is not
\* in the exact set afterwards.
C29_RestoreReplacesExactSetOnly ==
    [][Restores =>
         IF IsNone(indexFile)
         THEN idx' = idx
         ELSE /\ idx'.exact_hashes = FileHashes
              /\ idx'.lsh = idx.lsh
              /\ idx'.minhashes = idx.minhashes
              /\ idx'.counter = idx.counter
              /\ \A h \in idx.exact_hashes \ FileHashes :
                     h \notin idx'.exact_hashes]_vars

\* After load_index of an existing file: a text admitted to the index
\* before is still in the near-duplicate index, and its fingerprint, which
\* the file does not list, is no longer in the exact set.
C29_Witness ==
    /\ dres.op = "load_index"
    /\ ~IsNone(indexFile)
    /\ idx.counter > 0
    /\ idx.exact_hashes = FileHashes
    /\ \E t \in dhist.admitted : Fingerprint(t) \notin idx.exact_hashes


\* The step is a delete_version(v) for a v that is neither `current` nor
\* the id of an entry of the version list.
DeletesUnknown ==
    /\ result'.op = "delete_version"
    /\ result'.target # manifest.current
    /\ result'.target[1] \notin ExistingIds(manifest)

\* C30: delete_version(v) for an id v that is neither `current` nor present
\* in the manifest raises no error and leaves the version list and
\* `current` unchanged; of the version directories it removes only the one
\* named v, if there is one, and every other version keeps its files.
C30_DeleteUnknownTouchesOnlyThatDirectory ==
    [][DeletesUnknown =>
         LET v == result'.target[1]
         IN  /\ result'.status = "ok"
             /\ manifest'.versions = manifest.versions
             /\ manifest'.current = manifest.current
             /\ (DOMAIN versionFiles) \ { v } \subseteq DOMAIN versionFiles'
             /\ \A n \in (DOMAIN versionFiles) \ { v } :
                    versionFiles'[n] = versionFiles[n]]_vars

====
